---- MODULE Spec2Model ----
(***************************************************************************)
(* Model of the audio-share streaming server core:                         *)
(*   - network_manager: per-peer control plane (read_loop, heartbeat_loop),*)
(*     peer registry, UDP endpoint registration, datagram fan-out;         *)
(*   - buffer_pool: recyclable fixed-size byte buffers.                    *)
(*                                                                         *)
(* The specifications share the variables:                                 *)
(*   Spec      the control plane (sessions, registry, heartbeat);          *)
(*   SpecCast  sessions, UDP registration and the datagram fan-out;        *)
(*   SpecSeg   one call of broadcast_audio_data, its segmentation loop     *)
(*             taken one iteration at a time (FairSpecSeg adds fairness);  *)
(*   SpecPool  a buffer_pool built with arbitrary constructor arguments.   *)
(*                                                                         *)
(* Time is counted in whole seconds, the unit of HEARTBEAT_INTERVAL and    *)
(* HEARTBEAT_TIMEOUT.  A time stamp t is kept as its age now - t.          *)
(***************************************************************************)
EXTENDS Integers, Sequences, FiniteSets, TLC

(***************************************************************************)
(* Program constants                                                       *)
(***************************************************************************)
DEFAULT_MTU == 1492
IPV6_HEADER_SIZE == 40
UDP_HEADER_SIZE == 8
MAX_UDP_PAYLOAD_SIZE == DEFAULT_MTU - IPV6_HEADER_SIZE - UDP_HEADER_SIZE
HEARTBEAT_INTERVAL == 3
HEARTBEAT_TIMEOUT == 5
\* network_manager's pool: buffer_pool(MAX_UDP_PAYLOAD_SIZE, 16, 128)
POOL_INITIAL_CAPACITY == 16
POOL_MAX_SIZE == 128

\* websocket_manager::broadcast_audio_data: audio_queue.size() < 50
WS_QUEUE_LIMIT == 50
\* websocket_manager::_heartbeat_interval, _heartbeat_timeout (seconds)
WS_HEARTBEAT_INTERVAL == 10
WS_HEARTBEAT_TIMEOUT == 30

\* cmd_t
cmd_none == 0
cmd_get_format == 1
cmd_start_play == 2
cmd_heartbeat == 3

(***************************************************************************)
(* Bounds of the model                                                     *)
(***************************************************************************)
\* connections open at the same time
MaxStreams == 1
\* SpecPeers: connections open at the same time
MaxPeers == 2
\* admissions (values of g_id) followed
MaxId == 3
\* jobs posted to the reactor and not yet run
MaxJobs == 2
\* segment buffers held by send_to operations under way
MaxFlying == 2
\* largest chunk (bytes) the capture hands to broadcast in SpecCast
MaxChunk == 1
\* SpecSeg: chunk lengths are q * MAX_UDP_PAYLOAD_SIZE + d,
\* q in 0..MaxFullSegs, d in -MaxDelta..MaxDelta
MaxFullSegs == 4
MaxDelta == 6
\* SpecSeg: block_align in 1..MaxBlockAlign (and three values around the
\* payload size)
MaxBlockAlign == 8
\* SpecSeg: iterations followed when an iteration makes no progress
MaxSpin == 2
\* SpecPool: constructor arguments and buffers held outside the pool
MaxBufferSize == 2
MaxInitialCapacity == 3
MaxPoolSize == 2
MaxHeld == 3
\* SpecWs: WebSocket connections open at the same time
MaxWs == 1
\* SpecBind: characters after the ':' of the bind value
MaxPortLen == 5
\* SpecAddr: addresses in the list given to select_default_address
MaxAddrs == 3
\* additional broadcasters, and registrations of them
MaxBroadcasters == 2
\* SpecWsCast: WebSocket sessions the chunks are fanned out to
MaxWsCast == 2
\* broadcast calls with a chunk followed
MaxWsCasts == 2
\* frames of a connection that the browser takes
MaxWsFrames == 2

Streams == 1..MaxPeers
WsIds == 1..MaxWsCast

VARIABLES
    \* ---- server (network_manager) ----
    sock,                \* tcp_socket of each stream: "none" | "open" | "closed"
    conn,                \* the stream's connection as the OS sees it: "up" | "down"
    rl,                  \* read_loop coroutine position of each stream
    hb,                  \* heartbeat_loop coroutine position of each stream
    timer,               \* seconds until the heartbeat timer of the stream expires
    _playing_peer_list,  \* registry: stream -> peer_info_t
    g_id,                \* static int g_id of add_playing_peer
    udp_server_family,   \* address family of _udp_server's local endpoint
    jobs,                \* handlers posted to _ioc by broadcast_audio_data
    stream_slots,        \* connections the listeners keep open at the same time
    \* ---- network_manager and capture life cycle ----
    nm_pc,               \* the caller's position in start_server / stop_server /
                         \* wait_server ("idle" between calls)
    nm_ioc,              \* _ioc: "null" | "ready" | "stopped"
    nm_tcp,              \* the reliable listener is bound and accepts
    nm_udp,              \* _udp_server: "null" | "open" | "bound"
    nm_thread,           \* _net_thread: "none" | "running" | "exited" | "joined"
    capture,             \* the capture, with the server as its sink: "off" | "on"
    nm_thrown,           \* the last call that threw to its caller, "none" if the
                         \* last call returned
    nm_crashed,          \* the process has crashed
    \* ---- main and address selection ----
    address_list,        \* the argument of select_default_address
    selected,            \* its result, NotCalled before the call
    main_in,             \* the values of --bind and --websocket-port
    main_pc,             \* main: "off" | "bind" | "ws_start" | "add_broadcaster"
                         \* | "nm_start" | "in_start_server" | "exited"
    ws_msg,              \* handle_session's msg of each connection while the
                         \* reply to it is written ("none" otherwise)
    _capture_config,     \* websocket_manager::_capture_config, the copy of the
                         \* capture_config that main passes to start_server
    format_json,         \* the result of build_format_json, NotBuilt before
                         \* the call
    mtx,                 \* the thread that holds each mutex ("free" for none)
    th,                  \* what each thread has left to do of the function it
                         \* is in: its lock and unlock operations, in order
    logged_ids,          \* broadcast_audio_data's static std::set<int> logged_ids
    warn_count,          \* history: the mismatch warnings logged for each peer
                         \* id, counted up to two
    main_out,            \* main's exit status, and the host and ports it
                         \* serves on
    \* ---- datagram sends ----
    flying,              \* the segment buffers (by size) that async_send_to
                         \* operations which have not completed refer to,
                         \* each with the number of these operations
    issued,              \* the async_send_to calls of the job run last, in the
                         \* order they were made
    \* ---- additional broadcasters ----
    _additional_broadcasters,  \* the registered broadcasters, in order
                         \* (NullBroadcaster for a null pointer)
    bc_calls,            \* the calls the most recent broadcast call made to
                         \* additional broadcasters, in order
    cast_in,             \* the arguments of the most recent broadcast call
    chunk_lens,          \* the chunk lengths the capture produces in this run
    job_slots,           \* the posted jobs the reactor lets wait in this run
    \* ---- websocket_manager life cycle ----
    wl_pc,               \* the caller's position in the websocket_manager's
                         \* stop_server ("idle" between calls)
    wl_ret,              \* the last call that returned: "none" | "start_server"
                         \* | "stop_server" | "wait_server"
    ws_ioc,              \* websocket_manager::_ioc: "null" | "ready" | "stopped"
    ws_thread,           \* _server_thread: "none" | "bind" | "run" | "exited" |
                         \* "joined"
    \* ---- histories (observations, not program state) ----
    start_log,           \* ids returned by add_playing_peer, in admission order
    hb_gap,              \* seconds since the last HEARTBEAT of a playing stream
                         \* arrived (since its admission before the first one)
    \* ---- buffer_pool ----
    pool_cfg,            \* [buffer_size, max_pool_size]
    _pool,               \* stack of pooled buffers (a buffer is its size; pooled
                         \* buffers are zero-filled)
    held,                \* SpecPool: the buffers owned outside the pool, each
                         \* [size, recycled]; recycled: acquire took it from
                         \* the pool, where an earlier owner had returned it
    untouched,           \* SpecPool: how many buffers at the bottom of the
                         \* stack are the constructor's, never acquired
    \* ---- one broadcast_audio_data call (SpecSeg) ----
    seg_pc,              \* "off" | "entry" | "reserve" | "loop" | "done" | "crashed"
    seg_in,              \* [data, count, block_align]
    max_seg_size,
    begin_pos,
    seg_list,
    \* ---- websocket_manager ----
    ws_is_running,       \* _is_running
    ws_pc,               \* handle_session coroutine position of each connection:
                         \* "none" | "accept" | "fmt" | "read" | "pong" |
                         \* "pong_stuck"
    ws_open,             \* ws->is_open() of each connection
    ws_peer,             \* the connection as the OS sees it: "up" | "down"
    ws_send,             \* send_loop position: "none" | "top" | "write" |
                         \* "stuck" | "done"
    ws_out,              \* the buffer send_loop is writing (<<>> when none)
    _sessions,           \* keys of the session map
    audio_queue,         \* ws_session::audio_queue of each connection
    ws_wire,             \* history: the frames written to each connection
    ws_casts,            \* history: broadcast calls with a chunk made so far
    ws_slots,            \* connections the browsers keep open at the same time
    ws_hb,               \* heartbeat_loop position of each connection's session:
                         \* "none" | "top" | "timer" | "done"
    ws_timer,            \* seconds until the heartbeat timer of the session expires
    ws_age,              \* now - session->last_tick, in seconds
    ws_close             \* the close code the server closed the connection
                         \* with: "none" | "going_away"

serverVars == <<sock, conn, rl, hb, timer, _playing_peer_list, g_id,
                udp_server_family, jobs, stream_slots>>
wsLife == <<wl_pc, wl_ret, ws_ioc, ws_thread>>
fwdVars == <<_additional_broadcasters, bc_calls, cast_in, chunk_lens,
             job_slots>>
sendVars == <<flying, issued>>
mainVars == <<address_list, selected, main_in, main_pc, main_out>>
logVars == <<logged_ids, warn_count>>
lockVars == <<mtx, th>>
fmtVars == <<_capture_config, format_json>>
extraVars == <<logVars, ws_msg, lockVars, fmtVars>>
lifeQuiet == <<nm_pc, nm_ioc, nm_tcp, nm_udp, nm_thread, capture, nm_thrown,
               wsLife, fwdVars, sendVars, mainVars>>
lifeCore == <<lifeQuiet, nm_crashed>>
lifeVars == <<lifeCore, extraVars>>
histVars == <<start_log, hb_gap>>
poolVars == <<pool_cfg, _pool, held, untouched>>
segVars == <<seg_pc, seg_in, max_seg_size, begin_pos, seg_list>>
wsVars == <<ws_is_running, ws_pc, ws_open, ws_peer, ws_send, ws_out,
            _sessions, audio_queue, ws_wire, ws_casts, ws_slots,
            ws_hb, ws_timer, ws_age, ws_close>>
beatVars == <<ws_hb, ws_timer, ws_age, ws_close>>
vars == <<serverVars, lifeVars, histVars, poolVars, segVars, wsVars>>

(***************************************************************************)
(* Helpers                                                                 *)
(***************************************************************************)
Min(a, b) == IF a <= b THEN a ELSE b

\* the bytes of a captured chunk of n bytes
ChunkData(n) == [i \in 1..n |-> (i - 1) % 256]

RECURSIVE Concat(_)
Concat(ss) == IF ss = <<>> THEN <<>> ELSE Head(ss) \o Concat(Tail(ss))

RECURSIVE SumLen(_)
SumLen(ss) == IF ss = <<>> THEN 0 ELSE Len(Head(ss)) + SumLen(Tail(ss))

\* integer ceiling of a / b, b > 0
CeilDiv(a, b) == (a + b - 1) \div b

(***************************************************************************)
(* buffer_pool                                                             *)
(***************************************************************************)
\* buffer_pool::buffer_pool : initial_capacity buffers of buffer_size bytes
PoolConstruct(buffer_size, initial_capacity) ==
    [i \in 1..initial_capacity |-> buffer_size]

\* buffer_pool::acquire : pop the top of the stack, else allocate
\* a new buffer of _buffer_size bytes
Acquire(pool, cfg) ==
    IF pool # <<>>
    THEN [buf |-> pool[Len(pool)], pool |-> SubSeq(pool, 1, Len(pool) - 1)]
    ELSE [buf |-> cfg.buffer_size, pool |-> pool]

\* std::vector<uint8_t>::clear / resize(n), on the size of the buffer
BufClear(buf) == 0
BufResize(buf, n) == n

\* variant: the buffer is pushed as its owner left it
ReturnBuffer_as_left(pool, cfg, buf) ==
    IF Len(pool) < cfg.max_pool_size
    THEN Append(pool, buf)
    ELSE pool

\* buffer_pool::return_buffer : below _max_pool_size the buffer is cleared,
\* resized to _buffer_size and pushed; otherwise it is freed
ReturnBuffer(pool, cfg, buf) ==
    IF Len(pool) < cfg.max_pool_size
    THEN Append(pool, BufResize(BufClear(buf), cfg.buffer_size))
    ELSE pool

RECURSIVE ReturnAll(_, _, _)
ReturnAll(pool, cfg, bufs) ==
    IF bufs = <<>> THEN pool
    ELSE ReturnAll(ReturnBuffer(pool, cfg, Len(Head(bufs))), cfg, Tail(bufs))

\* buffers of the given sizes go back to the pool
RECURSIVE ReturnSizes(_, _, _)
ReturnSizes(pool, cfg, sizes) ==
    IF sizes = <<>> THEN pool
    ELSE ReturnSizes(ReturnBuffer(pool, cfg, Head(sizes)), cfg, Tail(sizes))

\* buffer_pool::pool_size
pool_size == Len(_pool)

(***************************************************************************)
(* broadcast_audio_data: segmentation                                      *)
(***************************************************************************)
\* variant: the payload size is not rounded down to whole sample frames
MaxSegSize_unaligned(block_align) ==
    MAX_UDP_PAYLOAD_SIZE

\* max_seg_size = MAX_UDP_PAYLOAD_SIZE; max_seg_size -= max_seg_size % block_align
MaxSegSize(block_align) ==
    MAX_UDP_PAYLOAD_SIZE - (MAX_UDP_PAYLOAD_SIZE % block_align)

\* variant: the segment is cut at the payload size, not at max_seg_size
RealSegSize_payload(count, bp, mss) == Min(count - bp, MAX_UDP_PAYLOAD_SIZE)

\* real_seg_size of the iteration that starts at begin position bp
RealSegSize(count, bp, mss) == Min(count - bp, mss)

\* variant: the copy starts at data, not at data + begin_pos
FillSegment_from_start(data, bp, real_seg_size) == SubSeq(data, 1, real_seg_size)

\* seg->resize(real_seg_size); std::copy(data + begin_pos,
\*     data + begin_pos + real_seg_size, seg->begin())
FillSegment(data, bp, real_seg_size) == SubSeq(data, bp + 1, bp + real_seg_size)

\* one iteration of the for loop; st = [begin_pos, seg_list, pool]
SegLoopBody(st, cfg, data, count, mss) ==
    LET real_seg_size == RealSegSize(count, st.begin_pos, mss)
        acq == Acquire(st.pool, cfg)
        seg == FillSegment(data, st.begin_pos, real_seg_size)
    IN [begin_pos |-> st.begin_pos + real_seg_size,
        seg_list |-> Append(st.seg_list, seg),
        pool |-> acq.pool]

\* the whole loop (mss > 0)
RECURSIVE SegLoop(_, _, _, _, _)
SegLoop(st, cfg, data, count, mss) ==
    IF st.begin_pos < count
    THEN SegLoop(SegLoopBody(st, cfg, data, count, mss), cfg, data, count, mss)
    ELSE st

(***************************************************************************)
(* SpecSeg: one call broadcast_audio_data(data, count, block_align)        *)
(***************************************************************************)
\* if (count <= 0) return;  otherwise compute max_seg_size
SegEntry ==
    /\ seg_pc = "entry"
    /\ IF seg_in.count <= 0
       THEN /\ seg_pc' = "done"
            /\ UNCHANGED max_seg_size
       ELSE /\ seg_pc' = "reserve"
            /\ max_seg_size' = MaxSegSize(seg_in.block_align)
    /\ UNCHANGED <<wsVars, lifeVars, seg_in, begin_pos, seg_list, serverVars, histVars, poolVars>>

\* seg_list.reserve((count + max_seg_size - 1) / max_seg_size);
\* with max_seg_size = 0 the division is undefined: the call traps, or the
\* build goes on into the loop
SegReserve ==
    /\ seg_pc = "reserve"
    /\ IF max_seg_size = 0
       THEN seg_pc' \in {"crashed", "loop"}
       ELSE seg_pc' = "loop"
    /\ UNCHANGED <<wsVars, lifeVars, seg_in, max_seg_size, begin_pos, seg_list,
                   serverVars, histVars, poolVars>>

\* one iteration of for (size_t begin_pos = 0; begin_pos < count;)
SegIterate ==
    /\ seg_pc = "loop"
    /\ begin_pos < seg_in.count
    /\ RealSegSize(seg_in.count, begin_pos, max_seg_size) = 0
           => Len(seg_list) < MaxSpin
    /\ LET st == SegLoopBody([begin_pos |-> begin_pos, seg_list |-> seg_list,
                              pool |-> _pool],
                             pool_cfg, seg_in.data, seg_in.count, max_seg_size)
       IN /\ begin_pos' = st.begin_pos
          /\ seg_list' = st.seg_list
          /\ _pool' = st.pool
    /\ UNCHANGED <<wsVars, lifeVars, seg_pc, seg_in, max_seg_size, pool_cfg, held, untouched,
                   serverVars, histVars>>

\* the loop condition begin_pos < count fails
SegLoopExit ==
    /\ seg_pc = "loop"
    /\ ~(begin_pos < seg_in.count)
    /\ seg_pc' = "done"
    /\ UNCHANGED <<wsVars, lifeVars, seg_in, max_seg_size, begin_pos, seg_list,
                   serverVars, histVars, poolVars>>

NextSeg == SegEntry \/ SegReserve \/ SegIterate \/ SegLoopExit

(***************************************************************************)
(* SpecPool: a buffer_pool and the owners of its buffers                   *)
(***************************************************************************)
\* buffer_ptr b = pool.acquire()
PoolAcquire ==
    /\ Len(held) < MaxHeld
    /\ LET acq == Acquire(_pool, pool_cfg)
       IN /\ _pool' = acq.pool
          /\ held' = Append(held, [size |-> acq.buf,
                                   recycled |-> Len(_pool) > untouched])
          /\ untouched' = Min(untouched, Len(acq.pool))
    /\ UNCHANGED <<wsVars, lifeVars, pool_cfg, serverVars, histVars, segVars>>

\* the owner resizes its buffer, as broadcast_audio_data does (seg->resize)
PoolOwnerResize ==
    \E i \in 1..Len(held), n \in 0..(pool_cfg.buffer_size + 1) :
        /\ held[i].size # n
        /\ held' = [held EXCEPT ![i].size = n]
        /\ UNCHANGED <<wsVars, lifeVars, pool_cfg, _pool, untouched, serverVars, histVars, segVars>>

\* the last buffer_ptr is dropped: the deleter calls return_buffer
PoolRelease ==
    \E i \in 1..Len(held) :
        /\ _pool' = ReturnBuffer(_pool, pool_cfg, held[i].size)
        /\ held' = SubSeq(held, 1, i - 1) \o SubSeq(held, i + 1, Len(held))
        /\ UNCHANGED <<wsVars, lifeVars, pool_cfg, untouched, serverVars, histVars, segVars>>

NextPool == PoolAcquire \/ PoolOwnerResize \/ PoolRelease

(***************************************************************************)
(* Spec: the server                                                        *)
(***************************************************************************)
\* asio::ip::udp::endpoint() : IPv4, any address, port 0
DefaultEndpoint == [fam |-> "v4", host |-> 0, port |-> 0]

\* source endpoints of the datagrams a socket of the given family receives;
\* "v6m" is an IPv4-mapped IPv6 address (::ffff:a.b.c.d)
Sources(family) ==
    IF family = "v4"
    THEN {[fam |-> "v4", host |-> 1, port |-> 1]}
    ELSE {[fam |-> "v6", host |-> 1, port |-> 1],
          [fam |-> "v6m", host |-> 2, port |-> 1]}

\* address().is_v4() / address().is_v6()
is_v4(ep) == ep.fam = "v4"
is_v6(ep) == ep.fam \in {"v6", "v6m"}

\* ages are cut off above every value the code distinguishes
AgeCap == HEARTBEAT_TIMEOUT + HEARTBEAT_INTERVAL + 1

\* a coroutine that holds no reference to its socket (not started, or ended)
Ended == {"none", "done"}

\* the worker thread is in _ioc->run() and the reactor has not been stopped
NmReactorRuns ==
    /\ ~nm_crashed
    /\ nm_thread = "running"
    /\ nm_ioc = "ready"

\* peer->remote_endpoint() (throwing overload) throws on a closed socket;
\* on a connection that is down the OS may answer "not connected"
RemoteEndpointThrows(s) ==
    IF sock[s] # "open" THEN {TRUE}
    ELSE IF conn[s] = "down" THEN {TRUE, FALSE}
    ELSE {FALSE}

\* peer->shutdown(shutdown_both) (throwing overload), likewise
ShutdownThrows(s) ==
    IF sock[s] # "open" THEN {TRUE}
    ELSE IF conn[s] = "down" THEN {TRUE, FALSE}
    ELSE {FALSE}

\* an async_write on the stream completes with an error
WriteFails(s) == sock[s] # "open" \/ conn[s] = "down"

\* variant: the entry is left in the registry
remove_playing_peer_keep(reg, s) == reg

\* network_manager::remove_playing_peer
remove_playing_peer(reg, s) ==
    IF s \notin DOMAIN reg THEN reg
    ELSE [k \in DOMAIN reg \ {s} |-> reg[k]]

\* variant: the close empties the registry
close_session_all(reg, s, re, sh) ==
    IF re THEN [reg |-> reg, closed |-> FALSE]
    ELSE IF sh THEN [reg |-> <<>>, closed |-> FALSE]
         ELSE [reg |-> <<>>, closed |-> TRUE]

\* network_manager::close_session; re / sh: remote_endpoint() / shutdown()
\* throws.  The result says whether peer->close() was reached.
close_session(reg, s, re, sh) ==
    IF re THEN [reg |-> reg, closed |-> FALSE]
    ELSE LET reg2 == remove_playing_peer(reg, s)
         IN IF sh THEN [reg |-> reg2, closed |-> FALSE]
            ELSE [reg |-> reg2, closed |-> TRUE]

\* variant: info->id = g_id++
NewPeerInfo_post_increment(gid) ==
    [id |-> gid, udp_peer |-> DefaultEndpoint, age |-> 0]

\* make_shared<peer_info_t>(); info->id = ++g_id; info->last_tick.store(now)
NewPeerInfo(gid) ==
    [id |-> gid + 1, udp_peer |-> DefaultEndpoint, age |-> 0]

\* variant: g_id is advanced before the registry is looked up
add_playing_peer_eager(reg, gid, s) ==
    IF s \in DOMAIN reg
    THEN [reg |-> reg, g_id |-> gid + 1, id |-> 0]
    ELSE [reg |-> [k \in DOMAIN reg \cup {s} |->
                     IF k = s
                     THEN NewPeerInfo(gid)
                     ELSE reg[k]],
          g_id |-> gid + 1,
          id |-> gid + 1]

\* network_manager::add_playing_peer; the result id is 0 for a repeated add
add_playing_peer(reg, gid, s) ==
    IF s \in DOMAIN reg
    THEN [reg |-> reg, g_id |-> gid, id |-> 0]
    ELSE [reg |-> [k \in DOMAIN reg \cup {s} |->
                     IF k = s
                     THEN NewPeerInfo(gid)
                     ELSE reg[k]],
          g_id |-> gid + 1,
          id |-> gid + 1]

\* A step of a coroutine of stream s ends with the registry cs.reg, the
\* coroutine positions rl2 / hb2 and, when cs.closed, the socket closed.  The
\* socket is also closed by its destructor when the last shared_ptr to it
\* goes (the coroutine frames and the registry hold one each).
Settle(s, cs, rl2, hb2) ==
    LET destroyed == /\ rl2[s] \in Ended
                     /\ hb2[s] \in Ended
                     /\ s \notin DOMAIN cs.reg
        closes == sock[s] = "open" /\ (cs.closed \/ destroyed)
    IN /\ _playing_peer_list' = cs.reg
       /\ rl' = rl2
       /\ hb' = hb2
       /\ sock' = IF closes THEN [sock EXCEPT ![s] = "closed"] ELSE sock
       /\ conn' = IF closes THEN [conn EXCEPT ![s] = "down"] ELSE conn
       /\ hb_gap' = IF s \in DOMAIN cs.reg THEN hb_gap
                    ELSE [hb_gap EXCEPT ![s] = 0]

\* accept_tcp_loop: one iteration; co_spawn read_loop(peer).  A stream slot
\* is free when it holds no socket, or a closed socket that nothing refers to.
Accept(s) ==
    /\ NmReactorRuns
    /\ s <= stream_slots
    /\ sock[s] # "open"
    /\ rl[s] \in Ended
    /\ hb[s] \in Ended
    /\ s \notin DOMAIN _playing_peer_list
    /\ IF s = 1 THEN TRUE ELSE sock[s - 1] # "none"
    /\ sock' = [sock EXCEPT ![s] = "open"]
    /\ conn' = [conn EXCEPT ![s] = "up"]
    /\ rl' = [rl EXCEPT ![s] = "read"]
    /\ hb' = [hb EXCEPT ![s] = "none"]
    /\ UNCHANGED <<wsVars, lifeVars, stream_slots, timer, _playing_peer_list, g_id, udp_server_family,
                   jobs, histVars, poolVars, segVars>>

\* the connection fails: the listener closes or resets it, or the transport
\* gives up
PeerDown(s) ==
    /\ sock[s] = "open"
    /\ conn[s] = "up"
    /\ conn' = [conn EXCEPT ![s] = "down"]
    /\ UNCHANGED <<wsVars, lifeVars, stream_slots, sock, rl, hb, timer, _playing_peer_list, g_id,
                   udp_server_family, jobs, histVars, poolVars, segVars>>

\* read_loop: async_read completes with an error (the socket was closed
\* under the read, or the connection is down): close_session(peer); break
ReadError(s) ==
    /\ NmReactorRuns
    /\ rl[s] = "read"
    /\ sock[s] # "open" \/ conn[s] = "down"
    /\ \E re \in RemoteEndpointThrows(s), sh \in ShutdownThrows(s) :
         Settle(s, close_session(_playing_peer_list, s, re, sh),
                [rl EXCEPT ![s] = "done"], hb)
    /\ UNCHANGED <<wsVars, lifeVars, stream_slots, timer, g_id, udp_server_family, jobs, start_log,
                   poolVars, segVars>>

\* read_loop: cmd_get_format read; the reply is written
ReadGetFormat(s) ==
    /\ NmReactorRuns
    /\ rl[s] = "read"
    /\ sock[s] = "open"
    /\ rl' = [rl EXCEPT ![s] = "w_format"]
    /\ UNCHANGED <<wsVars, lifeVars, stream_slots, sock, conn, hb, timer, _playing_peer_list, g_id,
                   udp_server_family, jobs, histVars, poolVars, segVars>>

\* read_loop: cmd_start_play read.  add_playing_peer logs
\* peer->remote_endpoint() on both of its paths; thr: that call throws and
\* ends the coroutine.  id <= 0: close_session(peer); break.  Otherwise the
\* start reply is written.
ReadStartPlay(s) ==
    /\ NmReactorRuns
    /\ rl[s] = "read"
    /\ sock[s] = "open"
    /\ g_id < MaxId
    /\ LET r == add_playing_peer(_playing_peer_list, g_id, s)
       IN /\ g_id' = r.g_id
          /\ start_log' = IF r.id > 0 THEN Append(start_log, r.id) ELSE start_log
          /\ \E thr \in RemoteEndpointThrows(s) :
               IF thr
               THEN Settle(s, [reg |-> r.reg, closed |-> FALSE],
                           [rl EXCEPT ![s] = "done"], hb)
               ELSE IF r.id <= 0
               THEN \E re \in RemoteEndpointThrows(s), sh \in ShutdownThrows(s) :
                       Settle(s, close_session(r.reg, s, re, sh),
                              [rl EXCEPT ![s] = "done"], hb)
               ELSE Settle(s, [reg |-> r.reg, closed |-> FALSE],
                           [rl EXCEPT ![s] = "w_start"], hb)
    /\ UNCHANGED <<wsVars, lifeVars, stream_slots, timer, udp_server_family, jobs, poolVars, segVars>>

\* variant: the heartbeat command leaves last_tick alone
StoreLastTick_skipped(reg, s) == reg

\* it->second->last_tick.store(now)
StoreLastTick(reg, s) ==
    IF s \in DOMAIN reg THEN [reg EXCEPT ![s].age = 0] ELSE reg

\* read_loop: cmd_heartbeat read
ReadHeartbeat(s) ==
    /\ NmReactorRuns
    /\ rl[s] = "read"
    /\ sock[s] = "open"
    /\ _playing_peer_list' = StoreLastTick(_playing_peer_list, s)
    /\ hb_gap' = [hb_gap EXCEPT ![s] = 0]
    /\ UNCHANGED <<wsVars, lifeVars, stream_slots, sock, conn, rl, hb, timer, g_id, udp_server_family,
                   jobs, start_log, poolVars, segVars>>

\* read_loop: any other command value (cmd_none, or a value outside cmd_t):
\* close_session(peer); break
ReadBadCmd(s) ==
    /\ NmReactorRuns
    /\ rl[s] = "read"
    /\ sock[s] = "open"
    /\ \E cmd \in {cmd_none, 4} :
         \E re \in RemoteEndpointThrows(s), sh \in ShutdownThrows(s) :
            Settle(s, close_session(_playing_peer_list, s, re, sh),
                   [rl EXCEPT ![s] = "done"], hb)
    /\ UNCHANGED <<wsVars, lifeVars, stream_slots, timer, g_id, udp_server_family, jobs, start_log,
                   poolVars, segVars>>

\* read_loop: the async_write of a reply completes.  On an error:
\* close_session(peer); break.  After the start reply: co_spawn heartbeat_loop.
ReplyWritten(s) ==
    /\ NmReactorRuns
    /\ rl[s] \in {"w_format", "w_start"}
    /\ IF WriteFails(s)
       THEN /\ \E re \in RemoteEndpointThrows(s), sh \in ShutdownThrows(s) :
                 Settle(s, close_session(_playing_peer_list, s, re, sh),
                        [rl EXCEPT ![s] = "done"], hb)
            /\ UNCHANGED timer
       ELSE /\ rl' = [rl EXCEPT ![s] = "read"]
            /\ IF rl[s] = "w_start"
               THEN /\ hb' = [hb EXCEPT ![s] = "timer"]
                    /\ timer' = [timer EXCEPT ![s] = HEARTBEAT_INTERVAL]
               ELSE UNCHANGED <<hb, timer>>
            /\ UNCHANGED <<sock, conn, _playing_peer_list, hb_gap>>
    /\ UNCHANGED <<wsVars, lifeVars, stream_slots, g_id, udp_server_family, jobs, start_log, poolVars, segVars>>

\* now - last_tick > _heartbeat_timeout
TimedOut(age) == age > HEARTBEAT_TIMEOUT

\* heartbeat_loop: the timer expires.  Socket closed: break.  Peer not in
\* the registry, or timed out (the "timeout" log calls remote_endpoint(),
\* which may throw): close_session(peer); break.  Otherwise the heartbeat
\* command is written.
HbTimer(s) ==
    /\ NmReactorRuns
    /\ hb[s] = "timer"
    /\ timer[s] = 0
    /\ IF sock[s] # "open"
       THEN Settle(s, [reg |-> _playing_peer_list, closed |-> FALSE],
                   rl, [hb EXCEPT ![s] = "done"])
       ELSE IF s \notin DOMAIN _playing_peer_list
       THEN \E re \in RemoteEndpointThrows(s), sh \in ShutdownThrows(s) :
               Settle(s, close_session(_playing_peer_list, s, re, sh),
                      rl, [hb EXCEPT ![s] = "done"])
       ELSE IF TimedOut(_playing_peer_list[s].age)
       THEN \E thr \in RemoteEndpointThrows(s) :
               IF thr
               THEN Settle(s, [reg |-> _playing_peer_list, closed |-> FALSE],
                           rl, [hb EXCEPT ![s] = "done"])
               ELSE \E re \in RemoteEndpointThrows(s), sh \in ShutdownThrows(s) :
                       Settle(s, close_session(_playing_peer_list, s, re, sh),
                              rl, [hb EXCEPT ![s] = "done"])
       ELSE Settle(s, [reg |-> _playing_peer_list, closed |-> FALSE],
                   rl, [hb EXCEPT ![s] = "write"])
    /\ UNCHANGED <<wsVars, lifeVars, stream_slots, timer, g_id, udp_server_family, jobs, start_log,
                   poolVars, segVars>>

\* heartbeat_loop: the async_write of cmd_heartbeat completes; on an error
\* close_session(peer); break, otherwise the timer is armed again
HbWritten(s) ==
    /\ NmReactorRuns
    /\ hb[s] = "write"
    /\ IF WriteFails(s)
       THEN /\ \E re \in RemoteEndpointThrows(s), sh \in ShutdownThrows(s) :
                 Settle(s, close_session(_playing_peer_list, s, re, sh),
                        rl, [hb EXCEPT ![s] = "done"])
            /\ UNCHANGED timer
       ELSE /\ hb' = [hb EXCEPT ![s] = "timer"]
            /\ timer' = [timer EXCEPT ![s] = HEARTBEAT_INTERVAL]
            /\ UNCHANGED <<sock, conn, rl, _playing_peer_list, hb_gap>>
    /\ UNCHANGED <<wsVars, lifeVars, stream_slots, g_id, udp_server_family, jobs, start_log, poolVars, segVars>>

\* One second passes.  Expired timers and pending writes are served first:
\* the reactor is idle otherwise, and the 4- to 8-byte writes go to the
\* socket's send buffer at once.
Tick ==
    /\ \A s \in Streams :
          /\ ~(hb[s] = "timer" /\ timer[s] = 0)
          /\ hb[s] # "write"
          /\ rl[s] \notin {"w_format", "w_start"}
    /\ \E s \in Streams : hb[s] = "timer" \/ s \in DOMAIN _playing_peer_list
    /\ timer' = [s \in Streams |->
                   IF hb[s] = "timer" THEN timer[s] - 1 ELSE timer[s]]
    /\ _playing_peer_list' =
          [s \in DOMAIN _playing_peer_list |->
             [_playing_peer_list[s] EXCEPT
                 !.age = Min(_playing_peer_list[s].age + 1, AgeCap)]]
    /\ hb_gap' = [s \in Streams |->
                    IF s \in DOMAIN _playing_peer_list
                    THEN Min(hb_gap[s] + 1, AgeCap) ELSE hb_gap[s]]
    /\ UNCHANGED <<wsVars, lifeVars, stream_slots, sock, conn, rl, hb, g_id, udp_server_family,
                   jobs, start_log, poolVars, segVars>>

\* fill_udp_peer: an IPv4-mapped IPv6 source is converted to IPv4
UnmapV4(ep) ==
    IF ep.fam = "v6m" THEN [fam |-> "v4", host |-> ep.host, port |-> ep.port]
    ELSE ep

\* network_manager::fill_udp_peer: the registry after the call
fill_udp_peer(reg, id, udp_peer) ==
    LET found == {k \in DOMAIN reg : reg[k].id = id}
    IN IF found = {} THEN reg
       ELSE LET k == CHOOSE x \in found : \A y \in found : x <= y
            IN [reg EXCEPT ![k].udp_peer = UnmapV4(udp_peer)]

\* accept_udp_loop: a registration datagram (id, source) is received
FillUdpPeer ==
    /\ NmReactorRuns
    /\ \E id \in 0..stream_slots, src \in Sources(udp_server_family) :
         _playing_peer_list' = fill_udp_peer(_playing_peer_list, id, src)
    /\ UNCHANGED <<wsVars, lifeVars, stream_slots, sock, conn, rl, hb, timer, g_id, udp_server_family,
                   jobs, histVars, poolVars, segVars>>

\* broadcast_audio_data: does the endpoint pass the address family filter
FamilyMatches(server_family, udp_ep) ==
    \/ server_family = "v4" /\ is_v4(udp_ep)
    \/ server_family # "v4" /\ is_v6(udp_ep)

\* broadcast_audio_data: the snapshot of the registry's endpoints that pass
\* the filter, in the order of the map (streams k..MaxStreams)
RECURSIVE SnapshotFrom(_, _, _)
SnapshotFrom(reg, server_family, k) ==
    IF k > MaxPeers THEN <<>>
    ELSE (IF k \in DOMAIN reg /\ FamilyMatches(server_family, reg[k].udp_peer)
          THEN <<reg[k].udp_peer>> ELSE <<>>)
         \o SnapshotFrom(reg, server_family, k + 1)

\* broadcast_audio_data: the ids of the registry's peers whose endpoint does
\* not pass the filter
Mismatched(reg, server_family) ==
    {reg[k].id : k \in {x \in DOMAIN reg :
                           ~FamilyMatches(server_family, reg[x].udp_peer)}}

\* the warning counts after one more warning for each of ids
Warn(count, ids) ==
    [id \in DOMAIN count \cup ids |->
        IF id \in ids
        THEN (IF id \in DOMAIN count THEN Min(count[id] + 1, 2) ELSE 1)
        ELSE count[id]]

\* variant: the id is not remembered
LoggedAfter_forgetting(logged, ids) == logged

\* broadcast_audio_data: logged_ids after the warnings for ids
LoggedAfter(logged, ids) == logged \cup ids

\* chunks of more than one datagram payload, by up to MaxChunk bytes
LongChunks == {MAX_UDP_PAYLOAD_SIZE + d : d \in 1..MaxChunk}

\* a null std::shared_ptr<audio_broadcaster>
NullBroadcaster == 0

\* the additional broadcasters that can be registered
Broadcasters == 1..MaxBroadcasters

\* variant: the list is walked from its end
RECURSIVE Forward_from_back(_, _, _, _)
Forward_from_back(list, data, count, block_align) ==
    IF list = <<>> THEN <<>>
    ELSE LET b == list[Len(list)]
         IN (IF b # NullBroadcaster
             THEN <<[to |-> b, data |-> data, count |-> count,
                     block_align |-> block_align]>>
             ELSE <<>>)
            \o Forward_from_back(SubSeq(list, 1, Len(list) - 1), data, count,
                                 block_align)

\* broadcast_audio_data, under _broadcasters_mutex: for each broadcaster of
\* the list that is not null, broadcaster->broadcast_audio_data(data, count,
\* block_align)
RECURSIVE Forward(_, _, _, _)
Forward(list, data, count, block_align) ==
    IF list = <<>> THEN <<>>
    ELSE (IF Head(list) # NullBroadcaster
          THEN <<[to |-> Head(list), data |-> data, count |-> count,
                  block_align |-> block_align]>>
          ELSE <<>>)
         \o Forward(Tail(list), data, count, block_align)

\* network_manager::add_broadcaster: push_back under _broadcasters_mutex
AddBroadcasterCall(b) ==
    /\ ~nm_crashed
    /\ Len(_additional_broadcasters) < MaxBroadcasters
    /\ _additional_broadcasters' = Append(_additional_broadcasters, b)
    /\ UNCHANGED <<bc_calls, cast_in, chunk_lens, job_slots>>

\* add_broadcaster called with any pointer, while main is not followed
AddBroadcaster ==
    /\ \E b \in {NullBroadcaster} \cup Broadcasters : AddBroadcasterCall(b)
    /\ UNCHANGED <<mainVars, extraVars, sendVars,
                   nm_pc, nm_ioc, nm_tcp, nm_udp, nm_thread,
                   capture, nm_thrown, nm_crashed, wsLife,
                   serverVars, histVars, poolVars, segVars, wsVars>>

\* network_manager::broadcast_audio_data called by the capture thread:
\* nothing for count <= 0; otherwise the chunk is cut into segments held in
\* pool buffers, the endpoints are snapshot under the registry mutex and one
\* job is posted to the reactor
\* The snapshot reads _udp_server->local_endpoint(): with _udp_server null
\* the call dereferences a null pointer, after which the process crashes or
\* goes on with either answer to is_v4()
Broadcast ==
    /\ capture = "on"
    /\ ~nm_crashed
    /\ Len(jobs) < job_slots
    /\ \E count \in chunk_lens, block_align \in 1..MaxChunk :
         /\ cast_in' = [data |-> ChunkData(count), count |-> count,
                        block_align |-> block_align]
         /\ IF count <= 0
            THEN /\ bc_calls' = <<>>
                 /\ UNCHANGED <<jobs, _pool, nm_crashed, logVars>>
            ELSE LET st == SegLoop([begin_pos |-> 0, seg_list |-> <<>>,
                                    pool |-> _pool],
                                   pool_cfg, ChunkData(count), count,
                                   MaxSegSize(block_align))
                 IN /\ bc_calls' = Forward(_additional_broadcasters,
                                           ChunkData(count), count,
                                           block_align)
                    /\ \E family \in IF nm_udp = "null"
                                      THEN {"crash", "v4", "v6"}
                                      ELSE {udp_server_family} :
                         /\ _pool' = st.pool
                         /\ nm_crashed' = (family = "crash")
                         /\ IF family = "crash"
                            THEN UNCHANGED logVars
                            ELSE LET ids == Mismatched(_playing_peer_list,
                                                       family)
                                 IN /\ logged_ids' = LoggedAfter(logged_ids, ids)
                                    /\ warn_count' =
                                          Warn(warn_count, ids \ logged_ids)
                         /\ jobs' = IF family = "crash" THEN jobs
                                    ELSE Append(jobs,
                                           [seg_list |-> st.seg_list,
                                            udp_peers |->
                                               SnapshotFrom(
                                                  _playing_peer_list,
                                                  family, 1)])
    /\ UNCHANGED <<wsVars, wsLife, nm_pc, nm_ioc, nm_tcp, nm_udp, nm_thread,
                   capture, nm_thrown, _additional_broadcasters, chunk_lens,
                   job_slots, sendVars, mainVars, ws_msg, lockVars, fmtVars,
                   stream_slots, sock, conn, rl, hb, timer,
                   _playing_peer_list, g_id,
                   udp_server_family, histVars,
                   pool_cfg, held, untouched, segVars>>

\* variant: the segments are walked from the last to the first
JobSends_from_back(job) ==
    LET n == Len(job.udp_peers)
        m == Len(job.seg_list)
    IN [i \in 1..(m * n) |->
          [seg |-> job.seg_list[m - ((i - 1) \div n)],
           idx |-> m - ((i - 1) \div n),
           to |-> job.udp_peers[((i - 1) % n) + 1]]]

\* the async_send_to calls of a job, in the order they are made: for each
\* segment (idx is its position in seg_list), for each endpoint
JobSends(job) ==
    LET n == Len(job.udp_peers)
    IN [i \in 1..(Len(job.seg_list) * n) |->
          [seg |-> job.seg_list[((i - 1) \div n) + 1],
           idx |-> ((i - 1) \div n) + 1,
           to |-> job.udp_peers[((i - 1) % n) + 1]]]

\* variant: the completion handlers do not hold the segment; every buffer
\* goes back to the pool when the job ends
JobReturns_at_job_end(job) == job.seg_list

\* The segment buffers that go back to the pool when the posted job has run
\* and its seg_list is destroyed: each completion handler holds a copy of the
\* buffer_ptr ([seg]), so with an endpoint to send to none goes back yet
JobReturns(job) ==
    IF job.udp_peers = <<>> THEN job.seg_list ELSE <<>>

\* the reactor runs the oldest posted job: async_send_to for every segment
\* and endpoint (JobSends); the segments the send_to operations refer to
\* stay borrowed.  At most MaxFlying buffers are followed at a time.
RunJob ==
    /\ NmReactorRuns
    /\ jobs # <<>>
    /\ LET job == Head(jobs)
           n == Len(job.udp_peers)
           sent == IF n = 0 THEN <<>>
                   ELSE [i \in 1..Len(job.seg_list) |->
                           [size |-> Len(job.seg_list[i]), sends |-> n]]
       IN /\ Len(flying) + Len(sent) <= MaxFlying
          /\ issued' = [i \in DOMAIN JobSends(job) |->
                          [idx |-> JobSends(job)[i].idx,
                           to |-> JobSends(job)[i].to]]
          /\ flying' = flying \o sent
          /\ _pool' = ReturnAll(_pool, pool_cfg, JobReturns(job))
    /\ jobs' = Tail(jobs)
    /\ UNCHANGED <<wsVars, wsLife, fwdVars, mainVars, extraVars, nm_pc, nm_ioc, nm_tcp,
                   nm_udp, nm_thread, capture, nm_thrown, nm_crashed,
                   stream_slots, sock, conn, rl, hb, timer,
                   _playing_peer_list, g_id,
                   udp_server_family, histVars,
                   pool_cfg, held, untouched, segVars>>

\* an async_send_to completes (sent, or failed): its handler runs and lets
\* go of the segment; the buffer goes back to the pool with the last
\* handler that held it
SendDone ==
    /\ NmReactorRuns
    /\ \E i \in 1..Len(flying) :
         IF flying[i].sends > 1
         THEN /\ flying' = [flying EXCEPT ![i].sends = @ - 1]
              /\ UNCHANGED _pool
         ELSE /\ flying' = SubSeq(flying, 1, i - 1)
                             \o SubSeq(flying, i + 1, Len(flying))
              /\ _pool' = ReturnBuffer(_pool, pool_cfg, flying[i].size)
    /\ UNCHANGED <<wsVars, wsLife, fwdVars, mainVars, extraVars, issued, nm_pc, nm_ioc,
                   nm_tcp,
                   nm_udp, nm_thread, capture, nm_thrown, nm_crashed,
                   stream_slots, sock, conn, rl, hb, timer,
                   _playing_peer_list, g_id, jobs,
                   udp_server_family, histVars,
                   pool_cfg, held, untouched, segVars>>

\* the segment buffers of the jobs a destroyed reactor still holds go back
\* to the pool
RECURSIVE ReturnAllJobs(_, _, _)
ReturnAllJobs(pool, cfg, js) ==
    IF js = <<>> THEN pool
    ELSE ReturnAllJobs(ReturnAll(pool, cfg, Head(js).seg_list), cfg, Tail(js))

(***************************************************************************)
(* network_manager::select_default_address                                 *)
(***************************************************************************)
\* a std::string that is empty; an address is a tuple of four octets
EmptyString == <<>>

\* select_default_address has not been called
NotCalled == <<"not called">>

\* x & y on naturals
RECURSIVE BitAnd(_, _)
BitAnd(x, y) ==
    IF x = 0 \/ y = 0 THEN 0
    ELSE (x % 2) * (y % 2) + 2 * BitAnd(x \div 2, y \div 2)

\* ntohl of what inet_pton(AF_INET) stores for the dotted address a.b.c.d:
\* the uint32_t 0xaabbccdd, kept as its four bytes from the most significant
AddrValue(address) == <<address[1], address[2], address[3], address[4]>>

\* x & y on two uint32_t kept as four bytes
And32(x, y) == [i \in 1..4 |-> BitAnd(x[i], y[i])]

\* private_addr_list: 0x0a000000, 0xac100000, 0xc0a80000
private_addr_list == <<<<10, 0, 0, 0>>, <<172, 16, 0, 0>>, <<192, 168, 0, 0>>>>

\* the lambda is_private_address: (addr & private_addr) == private_addr for
\* one of the list
is_private_address(address) ==
    \E i \in DOMAIN private_addr_list :
       And32(AddrValue(address), private_addr_list[i]) = private_addr_list[i]

\* select_default_address: empty for the empty list, the first address the
\* lambda accepts, else the front of the list
select_default_address(list) ==
    IF list = <<>> THEN EmptyString
    ELSE LET hits == {i \in DOMAIN list : is_private_address(list[i])}
         IN IF hits # {}
            THEN list[CHOOSE i \in hits : \A j \in hits : i <= j]
            ELSE list[1]

\* the call select_default_address(address_list)
SelectDefaultAddress ==
    /\ selected = NotCalled
    /\ selected' = select_default_address(address_list)
    /\ UNCHANGED <<address_list, main_in, main_pc, main_out,
                   nm_pc, nm_ioc, nm_tcp, nm_udp, nm_thread, capture,
                   nm_thrown, nm_crashed, wsLife, fwdVars, sendVars,
                   extraVars,
                   serverVars, histVars, poolVars, segVars, wsVars>>

(***************************************************************************)
(* network_manager: start_server, stop_server, wait_server                 *)
(***************************************************************************)
\* network_manager::is_running
is_running == nm_ioc # "null"

\* std::thread::joinable of _net_thread
NmJoinable == nm_thread \in {"running", "exited"}

\* The caller starts a call when the previous one has returned or thrown.
\* start_server is not called while a worker thread exists or the capture
\* produces.
\* start_server: _ioc = std::make_shared<asio::io_context>()
NmStartServerCall ==
    /\ ~nm_crashed
    /\ nm_pc = "idle"
    /\ ~NmJoinable
    /\ capture = "off"
    /\ nm_pc' = "start_tcp"
    /\ nm_ioc' = "ready"
    /\ nm_thrown' = "none"
    /\ UNCHANGED <<nm_tcp, nm_udp, nm_thread, capture, nm_crashed>>

\* start_server called while main is not followed
NmStartServer ==
    /\ NmStartServerCall
    /\ UNCHANGED <<serverVars, histVars, poolVars, segVars, mainVars, extraVars, fwdVars,
                   sendVars, wsVars, wsLife>>

\* start_server, the reliable listener: make_address, open, bind and listen
\* throw to the caller when they fail; then start_loopback_recording(self)
\* starts the capture with the server as its sink, and accept_tcp_loop is
\* spawned
NmStartTcp ==
    /\ ~nm_crashed
    /\ nm_pc = "start_tcp"
    /\ \E bound \in BOOLEAN :
         IF bound
         THEN /\ nm_tcp' = TRUE
              /\ capture' = "on"
              /\ nm_pc' = "start_udp"
              /\ UNCHANGED nm_thrown
         ELSE /\ nm_pc' = "idle"
              /\ nm_thrown' = "start_server"
              /\ UNCHANGED <<nm_tcp, capture>>
    /\ UNCHANGED <<nm_ioc, nm_udp, nm_thread, nm_crashed,
                   serverVars, histVars, poolVars, segVars, mainVars, extraVars, fwdVars, sendVars, wsVars, wsLife>>

\* start_server, the datagram listener: _udp_server is made, then bound; a
\* failing bind throws to the caller; then accept_udp_loop is spawned
NmStartUdp ==
    /\ ~nm_crashed
    /\ nm_pc = "start_udp"
    /\ \E bound \in BOOLEAN :
         IF bound
         THEN /\ nm_udp' = "bound"
              /\ nm_pc' = "start_thread"
              /\ UNCHANGED nm_thrown
         ELSE /\ nm_udp' = "open"
              /\ nm_pc' = "idle"
              /\ nm_thrown' = "start_server"
    /\ UNCHANGED <<nm_ioc, nm_tcp, nm_thread, capture, nm_crashed,
                   serverVars, histVars, poolVars, segVars, mainVars, extraVars, fwdVars, sendVars, wsVars, wsLife>>

\* start_server: _net_thread = std::thread(_ioc->run()); the call returns
NmStartThread ==
    /\ ~nm_crashed
    /\ nm_pc = "start_thread"
    /\ nm_thread' = "running"
    /\ nm_pc' = "idle"
    /\ UNCHANGED <<nm_ioc, nm_tcp, nm_udp, capture, nm_thrown, nm_crashed,
                   serverVars, histVars, poolVars, segVars, mainVars, extraVars, fwdVars, sendVars, wsVars, wsLife>>

\* the worker thread: _ioc->run() returns when the reactor is stopped, or
\* when it has no work left (both accept loops have ended on an error and
\* no session is left)
NmWorkerExit ==
    /\ ~nm_crashed
    /\ nm_thread = "running"
    /\ nm_thread' = "exited"
    /\ UNCHANGED <<nm_pc, nm_ioc, nm_tcp, nm_udp, capture, nm_thrown,
                   nm_crashed,
                   serverVars, histVars, poolVars, segVars, mainVars, extraVars, fwdVars, sendVars, wsVars, wsLife>>

\* stop_server: if (_ioc) _ioc->stop()
NmStopServer ==
    /\ ~nm_crashed
    /\ nm_pc = "idle"
    /\ nm_pc' = "stop_join"
    /\ nm_ioc' = IF nm_ioc = "null" THEN "null" ELSE "stopped"
    /\ nm_thrown' = "none"
    /\ UNCHANGED <<nm_tcp, nm_udp, nm_thread, capture, nm_crashed,
                   serverVars, histVars, poolVars, segVars, mainVars, extraVars, fwdVars, sendVars, wsVars, wsLife>>

\* stop_server: _net_thread.join() waits for the worker thread to exit; on a
\* thread that is not joinable it throws std::system_error, which leaves
\* stop_server
NmStopJoin ==
    /\ ~nm_crashed
    /\ nm_pc = "stop_join"
    /\ nm_thread # "running"
    /\ IF NmJoinable
       THEN /\ nm_thread' = "joined"
            /\ nm_pc' = "stop_capture"
            /\ UNCHANGED nm_thrown
       ELSE /\ nm_pc' = "idle"
            /\ nm_thrown' = "stop_server"
            /\ UNCHANGED nm_thread
    /\ UNCHANGED <<nm_ioc, nm_tcp, nm_udp, capture, nm_crashed,
                   serverVars, histVars, poolVars, segVars, mainVars, extraVars, fwdVars, sendVars, wsVars, wsLife>>

\* stop_server: _audio_manager->stop() ends the capture; it returns when the
\* capture thread makes no further call
NmStopCapture ==
    /\ ~nm_crashed
    /\ nm_pc = "stop_capture"
    /\ capture' = "off"
    /\ nm_pc' = "stop_clear"
    /\ UNCHANGED <<nm_ioc, nm_tcp, nm_udp, nm_thread, nm_thrown, nm_crashed,
                   serverVars, histVars, poolVars, segVars, mainVars, extraVars, fwdVars, sendVars, wsVars, wsLife>>

\* stop_server: _playing_peer_list.clear(); _udp_server = nullptr;
\* _ioc = nullptr (the reactor goes, and the listener, the coroutines with
\* their sockets and the jobs it holds go with it); the call returns
NmStopClear ==
    /\ ~nm_crashed
    /\ nm_pc = "stop_clear"
    /\ _playing_peer_list' = <<>>
    /\ nm_udp' = "null"
    /\ nm_ioc' = "null"
    /\ nm_tcp' = FALSE
    /\ jobs' = <<>>
    /\ flying' = <<>>
    /\ _pool' = ReturnSizes(ReturnAllJobs(_pool, pool_cfg, jobs), pool_cfg,
                            [i \in 1..Len(flying) |-> flying[i].size])
    /\ sock' = [s \in Streams |-> IF sock[s] = "open" THEN "closed"
                                   ELSE sock[s]]
    /\ conn' = [s \in Streams |-> IF sock[s] = "open" THEN "down"
                                   ELSE conn[s]]
    /\ rl' = [s \in Streams |-> IF rl[s] \in Ended THEN rl[s] ELSE "done"]
    /\ hb' = [s \in Streams |-> IF hb[s] \in Ended THEN hb[s] ELSE "done"]
    /\ hb_gap' = [s \in Streams |-> 0]
    /\ nm_pc' = "idle"
    /\ UNCHANGED <<nm_thread, capture, nm_thrown, nm_crashed,
                   stream_slots, timer, g_id, start_log,
                   udp_server_family, pool_cfg, held, untouched,
                   segVars, mainVars, extraVars, fwdVars, issued, wsVars, wsLife>>

\* wait_server: _net_thread.join()
NmWaitServer ==
    /\ ~nm_crashed
    /\ nm_pc = "idle"
    /\ nm_thread # "running"
    /\ IF NmJoinable
       THEN /\ nm_thread' = "joined"
            /\ nm_thrown' = "none"
       ELSE /\ nm_thrown' = "wait_server"
            /\ UNCHANGED nm_thread
    /\ UNCHANGED <<nm_pc, nm_ioc, nm_tcp, nm_udp, capture, nm_crashed,
                   serverVars, histVars, poolVars, segVars, mainVars, extraVars, fwdVars, sendVars, wsVars, wsLife>>

(***************************************************************************)
(* websocket_manager                                                       *)
(***************************************************************************)
\* the chunk the capture hands to the WebSocket broadcaster (bytes)
WsChunkLen == 2

(***************************************************************************)
(* websocket_manager::build_format_json                                    *)
(***************************************************************************)
\* the values of --encoding
Encodings == {"default", "f32", "s8", "s16", "s24", "s32"}

\* the capture_config of a command line without --encoding, --channels and
\* --sample-rate
DefaultConfig == [encoding |-> "default", channels |-> 0, sample_rate |-> 0]

\* the first switch: encoding_t to the string of the message
EncodingStr(encoding) ==
    CASE encoding = "f32" -> "f32"
      [] encoding = "s8" -> "s8"
      [] encoding = "s16" -> "s16"
      [] encoding = "s24" -> "s24"
      [] encoding = "s32" -> "s32"
      [] OTHER -> "s16"

\* the second switch: the bits of one sample
BitsPerSample(encoding) ==
    CASE encoding \in {"f32", "s32"} -> 32
      [] encoding = "s24" -> 24
      [] encoding = "s16" -> 16
      [] encoding = "s8" -> 8
      [] OTHER -> 16

\* build_format_json: the members of the JSON object
build_format_json(config) ==
    [type |-> "format",
     encoding |-> EncodingStr(config.encoding),
     channels |-> config.channels,
     sampleRate |-> config.sample_rate,
     bitsPerSample |-> BitsPerSample(config.encoding)]

NotBuilt == [type |-> "none"]

\* send_audio_format calls build_format_json for a new session
BuildFormatJson ==
    /\ format_json = NotBuilt
    /\ format_json' = build_format_json(_capture_config)
    /\ UNCHANGED <<_capture_config, serverVars, lifeCore, logVars, ws_msg,
                   lockVars, histVars, poolVars, segVars, wsVars>>

(***************************************************************************)
(* the mutexes                                                             *)
(***************************************************************************)
broadcasters_mutex == <<"_broadcasters_mutex", 0>>
sessions_mutex == <<"_sessions_mutex", 0>>
peer_list_mutex == <<"_peer_list_mutex", 0>>
pool_mutex == <<"buffer_pool::_mutex", 0>>
queue_mutex(w) == <<"queue_mutex", w>>

Mutexes ==
    {broadcasters_mutex, sessions_mutex, peer_list_mutex, pool_mutex}
       \cup {queue_mutex(w) : w \in WsIds}

\* the capture thread, the thread of main, and the worker threads of the
\* two reactors
Threads == {"capture", "user", "nm_reactor", "ws_reactor"}

\* std::lock_guard<std::mutex> lock(m) around the operations inner
Scope(m, inner) ==
    <<[op |-> "lock", m |-> m]>> \o inner \o <<[op |-> "unlock", m |-> m]>>

\* a lock_guard scope that takes no other mutex
Guarded(m) == Scope(m, <<>>)

\* websocket_manager::broadcast_audio_data, the loop over the sessions from
\* session w on: a session whose stream is open has its queue locked for
\* the enqueue
RECURSIVE WsSessionLocks(_, _)
WsSessionLocks(w, open) ==
    IF w \notin WsIds THEN <<>>
    ELSE (IF w \in open THEN Guarded(queue_mutex(w)) ELSE <<>>)
            \o WsSessionLocks(w + 1, open)

\* websocket_manager::broadcast_audio_data: nothing when not running;
\* otherwise the session map stays locked over the loop
WsBroadcastLocks(running, open) ==
    IF running THEN Scope(sessions_mutex, WsSessionLocks(1, open)) ELSE <<>>

\* network_manager::broadcast_audio_data: the broadcaster list stays locked
\* while the additional broadcaster (the websocket_manager when forward) is
\* called; then the pool is locked for the acquire of the segment buffer,
\* then the registry for the snapshot of the endpoints
NmBroadcastLocks(forward, running, open) ==
    Scope(broadcasters_mutex,
          IF forward THEN WsBroadcastLocks(running, open) ELSE <<>>)
       \o Guarded(pool_mutex)
       \o Guarded(peer_list_mutex)

\* variant: send_loop looks its session up in the map while it holds the
\* queue
SendLoopLocks_with_lookup(w) ==
    Scope(queue_mutex(w), Guarded(sessions_mutex))

\* send_loop: the queue is locked for the pop
SendLoopLocks(w) == Guarded(queue_mutex(w))

\* the functions each thread runs, as the lock operations they make:
\*   capture: network_manager::broadcast_audio_data
\*   user: add_broadcaster; websocket_manager::stop_server
\*   nm_reactor: read_loop on cmd_heartbeat, heartbeat_loop,
\*     add_playing_peer, remove_playing_peer, fill_udp_peer (the registry);
\*     buffer_pool::return_buffer when a job's segment is released
\*   ws_reactor: add_session, handle_session's cleanup, remove_session (the
\*     session map); send_loop
Routines(t) ==
    CASE t = "capture" ->
            {NmBroadcastLocks(forward, running, open) :
                forward \in BOOLEAN, running \in BOOLEAN,
                open \in SUBSET WsIds}
      [] t = "user" ->
            {Guarded(broadcasters_mutex), Guarded(sessions_mutex)}
      [] t = "nm_reactor" ->
            {Guarded(peer_list_mutex), Guarded(pool_mutex)}
      [] t = "ws_reactor" ->
            {Guarded(sessions_mutex)} \cup {SendLoopLocks(w) : w \in WsIds}

\* thread t enters one of its functions
LockCall(t) ==
    /\ th[t] = <<>>
    /\ \E r \in Routines(t) : th' = [th EXCEPT ![t] = r]
    /\ UNCHANGED <<mtx, serverVars, lifeCore, logVars, ws_msg, fmtVars,
                   histVars, poolVars, segVars, wsVars>>

\* thread t makes its next lock operation: lock() returns when the mutex is
\* free (never when t holds it itself); unlock() frees it
LockStep(t) ==
    /\ th[t] # <<>>
    /\ LET o == Head(th[t])
       IN IF o.op = "lock"
          THEN /\ mtx[o.m] = "free"
               /\ mtx' = [mtx EXCEPT ![o.m] = t]
          ELSE mtx' = [mtx EXCEPT ![o.m] = "free"]
    /\ th' = [th EXCEPT ![t] = Tail(@)]
    /\ UNCHANGED <<serverVars, lifeCore, logVars, ws_msg, fmtVars, histVars,
                   poolVars, segVars, wsVars>>

\* the WebSocket worker thread is in _ioc->run() and the reactor has not been
\* stopped
WsReactorRuns ==
    /\ ~nm_crashed
    /\ ws_thread = "run"
    /\ ws_ioc = "ready"

\* frames on a WebSocket connection
FormatFrame == [kind |-> "text", payload |-> "format"]
\* asio::buffer over a string literal: the char array of the literal, which
\* ends with the null character (written \0 here)
BufferOfLiteral(literal) == literal \o "\\0"

\* the frame written by ws->text(true); async_write(asio::buffer("pong"))
PongFrame == [kind |-> "text", payload |-> BufferOfLiteral("pong")]
AudioFrame(buf) == [kind |-> "binary", payload |-> buf]

\* an async_write on the connection fails
WsWriteFails(w) == ~ws_open[w] \/ ws_peer[w] = "down"

\* the browser takes the first MaxWsFrames frames of a connection; a later
\* write stays pending until the connection fails
WsWriteDone(w) == WsWriteFails(w) \/ Len(ws_wire[w]) < MaxWsFrames

\* The ws_session, and its queue with it, is destroyed when handle_session
\* and send_loop, which share it, have both ended
WsQueueKept(w, pc, send) ==
    IF pc = "none" /\ send \in {"none", "done"}
    THEN [audio_queue EXCEPT ![w] = <<>>]
    ELSE audio_queue

\* handle_session, "Cleanup": the session of the stream is erased from
\* the map and the coroutine ends
WsCleanup(w) ==
    /\ _sessions' = _sessions \ {w}
    /\ ws_pc' = [ws_pc EXCEPT ![w] = "none"]

\* accept_loop: async_accept returns a socket; co_spawn handle_session(ws),
\* which starts the WebSocket handshake.  A connection slot is free when
\* the coroutines of its last session have ended; a heartbeat_loop that
\* still sleeps on a closed stream counts as ended.
WsAccept(w) ==
    /\ WsReactorRuns
    /\ ws_is_running
    /\ w <= ws_slots
    /\ ws_pc[w] = "none"
    /\ ws_send[w] \in {"none", "done"}
    /\ ws_hb[w] \in {"none", "done"} \/ ~ws_open[w]
    /\ ws_pc' = [ws_pc EXCEPT ![w] = "accept"]
    /\ ws_open' = [ws_open EXCEPT ![w] = FALSE]
    /\ ws_peer' = [ws_peer EXCEPT ![w] = "up"]
    /\ ws_send' = [ws_send EXCEPT ![w] = "none"]
    /\ ws_out' = [ws_out EXCEPT ![w] = <<>>]
    /\ audio_queue' = [audio_queue EXCEPT ![w] = <<>>]
    /\ ws_wire' = [ws_wire EXCEPT ![w] = <<>>]
    /\ ws_hb' = [ws_hb EXCEPT ![w] = "none"]
    /\ ws_timer' = [ws_timer EXCEPT ![w] = 0]
    /\ ws_age' = [ws_age EXCEPT ![w] = 0]
    /\ ws_close' = [ws_close EXCEPT ![w] = "none"]
    /\ UNCHANGED <<ws_is_running, _sessions, ws_casts, ws_slots,
                   serverVars, lifeVars, histVars, poolVars, segVars>>

\* the browser closes or loses the connection
WsPeerDown(w) ==
    /\ ws_pc[w] # "none"
    /\ ws_peer[w] = "up"
    /\ ws_peer' = [ws_peer EXCEPT ![w] = "down"]
    /\ UNCHANGED <<ws_is_running, ws_pc, ws_open, ws_send, ws_out, _sessions,
                   audio_queue, ws_wire, ws_casts, ws_slots,
                   beatVars, serverVars, lifeVars, histVars, poolVars, segVars>>

\* variant: send_loop is spawned before the format frame is sent
WsHandshake_spawns_send_loop(w) ==
    /\ ws_pc[w] = "accept"
    /\ IF ws_peer[w] = "down"
       THEN /\ WsCleanup(w)
            /\ UNCHANGED <<ws_open, ws_send>>
       ELSE /\ ws_open' = [ws_open EXCEPT ![w] = TRUE]
            /\ _sessions' = _sessions \cup {w}
            /\ ws_pc' = [ws_pc EXCEPT ![w] = "fmt"]
            /\ ws_send' = [ws_send EXCEPT ![w] = "top"]
    /\ UNCHANGED <<ws_is_running, ws_peer, ws_out, audio_queue,
                   ws_wire, ws_casts, ws_slots,
                   beatVars, serverVars, lifeVars, histVars, poolVars, segVars>>

\* handle_session: ws->async_accept completes.  It throws on an error (the
\* catch leads to the cleanup); otherwise the session is made, add_session
\* puts it into the map and send_audio_format starts to write the format
\* text frame
WsHandshake(w) ==
    /\ WsReactorRuns
    /\ ws_pc[w] = "accept"
    /\ IF ws_peer[w] = "down"
       THEN /\ WsCleanup(w)
            /\ UNCHANGED ws_open
       ELSE /\ ws_open' = [ws_open EXCEPT ![w] = TRUE]
            /\ _sessions' = _sessions \cup {w}
            /\ ws_pc' = [ws_pc EXCEPT ![w] = "fmt"]
    /\ UNCHANGED <<ws_is_running, ws_peer, ws_send, ws_out, audio_queue,
                   ws_wire, ws_casts, ws_slots,
                   beatVars, serverVars, lifeVars, histVars, poolVars, segVars>>

\* send_audio_format: the write of the format frame completes (a failure is
\* caught and logged there); handle_session then spawns heartbeat_loop and
\* send_loop and enters its read loop, which it leaves at once for the
\* cleanup when the server is not running
WsFormatWritten(w) ==
    /\ WsReactorRuns
    /\ ws_pc[w] = "fmt"
    /\ WsWriteDone(w)
    /\ IF WsWriteFails(w)
       THEN /\ ws_open' = [ws_open EXCEPT ![w] = FALSE]
            /\ UNCHANGED ws_wire
       ELSE /\ ws_wire' = [ws_wire EXCEPT ![w] = Append(@, FormatFrame)]
            /\ UNCHANGED ws_open
    /\ ws_hb' = [ws_hb EXCEPT ![w] = "top"]
    /\ ws_send' = [ws_send EXCEPT ![w] = "top"]
    /\ IF ws_is_running
       THEN /\ ws_pc' = [ws_pc EXCEPT ![w] = "read"]
            /\ UNCHANGED _sessions
       ELSE WsCleanup(w)
    /\ UNCHANGED <<ws_is_running, ws_peer, ws_out, audio_queue, ws_casts,
                   ws_slots, ws_timer, ws_age, ws_close, serverVars, lifeVars, histVars, poolVars, segVars>>

\* handle_session, read loop: async_read completes with an error (the
\* stream was closed, or the connection is down): break and cleanup
WsReadError(w) ==
    /\ WsReactorRuns
    /\ ws_pc[w] = "read"
    /\ ~ws_open[w] \/ ws_peer[w] = "down"
    /\ ws_open' = [ws_open EXCEPT ![w] = FALSE]
    /\ WsCleanup(w)
    /\ audio_queue' = WsQueueKept(w, "none", ws_send[w])
    /\ UNCHANGED <<ws_is_running, ws_peer, ws_send, ws_out,
                   ws_wire, ws_casts, ws_slots,
                   beatVars, serverVars, lifeVars, histVars, poolVars, segVars>>

\* the messages a browser sends
WsMessages == {"ping", "pong", "other"}

\* ws->async_write is started by one coroutine of the session while the
\* async_write of another (other_write) may be in progress on the same
\* stream.  The stream takes one write at a time; a second one is undefined:
\* it goes through all the same, it never completes, or the process aborts
\* on the stream's assertion
WsWriteStart(other_write) ==
    IF other_write THEN {"started", "stuck", "abort"} ELSE {"started"}

\* handle_session, read loop: async_read completes with a message.  "ping":
\* text(true) and the write of "pong" starts; any other message: the next
\* read
WsReadMessage(w) ==
    /\ WsReactorRuns
    /\ ws_pc[w] = "read"
    /\ ws_open[w]
    /\ ws_peer[w] = "up"
    /\ \E msg \in WsMessages :
          /\ ws_msg' = [ws_msg EXCEPT ![w] =
                            IF msg = "ping" THEN msg ELSE "none"]
          /\ IF msg = "ping"
             THEN \E start \in WsWriteStart(ws_send[w] = "write") :
                     /\ ws_pc' = [ws_pc EXCEPT ![w] =
                                    IF start = "stuck" THEN "pong_stuck"
                                    ELSE "pong"]
                     /\ nm_crashed' = (start = "abort")
             ELSE /\ IF ws_is_running
                     THEN UNCHANGED ws_pc
                     ELSE ws_pc' = [ws_pc EXCEPT ![w] = "none"]
                  /\ UNCHANGED nm_crashed
    /\ _sessions' = IF ws_pc'[w] = "none" THEN _sessions \ {w} ELSE _sessions
    /\ ws_age' = [ws_age EXCEPT ![w] = 0]
    /\ audio_queue' = WsQueueKept(w, ws_pc'[w], ws_send[w])
    /\ UNCHANGED <<ws_is_running, ws_open, ws_peer, ws_send, ws_out,
                   ws_wire, ws_casts, ws_slots,
                   ws_hb, ws_timer, ws_close,
                   serverVars, lifeQuiet, logVars, lockVars, fmtVars,
                   histVars, poolVars, segVars>>

\* handle_session: the write of "pong" completes; it throws on an error
\* (catch, then cleanup), otherwise the next read
WsPongWritten(w) ==
    /\ WsReactorRuns
    /\ ws_pc[w] = "pong"
    /\ WsWriteDone(w)
    /\ IF WsWriteFails(w)
       THEN /\ ws_open' = [ws_open EXCEPT ![w] = FALSE]
            /\ WsCleanup(w)
            /\ UNCHANGED ws_wire
       ELSE /\ ws_wire' = [ws_wire EXCEPT ![w] = Append(@, PongFrame)]
            /\ IF ws_is_running
               THEN /\ ws_pc' = [ws_pc EXCEPT ![w] = "read"]
                    /\ UNCHANGED _sessions
               ELSE WsCleanup(w)
            /\ UNCHANGED ws_open
    /\ audio_queue' = WsQueueKept(w, ws_pc'[w], ws_send[w])
    /\ ws_msg' = [ws_msg EXCEPT ![w] = "none"]
    /\ UNCHANGED <<ws_is_running, ws_peer, ws_send, ws_out,
                   ws_casts, ws_slots, beatVars, serverVars, lifeCore,
                   logVars, lockVars, fmtVars, histVars, poolVars, segVars>>

\* send_loop, top of the loop: the loop ends when the server is not running
\* or the stream is not open; a queued buffer is popped, binary(true), and
\* its write starts.  (With an empty queue the loop sleeps 5 ms and comes
\* back here.)
WsSendStep(w) ==
    /\ WsReactorRuns
    /\ ws_send[w] = "top"
    /\ IF ~(ws_is_running /\ ws_open[w])
       THEN /\ ws_send' = [ws_send EXCEPT ![w] = "done"]
            /\ audio_queue' = WsQueueKept(w, ws_pc[w], "done")
            /\ UNCHANGED ws_out
            /\ UNCHANGED nm_crashed
       ELSE /\ audio_queue[w] # <<>>
            /\ ws_out' = [ws_out EXCEPT ![w] = Head(audio_queue[w])]
            /\ audio_queue' = [audio_queue EXCEPT ![w] = Tail(@)]
            /\ \E start \in WsWriteStart(ws_pc[w] = "pong") :
                  /\ ws_send' = [ws_send EXCEPT ![w] =
                                   IF start = "stuck" THEN "stuck"
                                   ELSE "write"]
                  /\ nm_crashed' = (start = "abort")
    /\ UNCHANGED <<ws_is_running, ws_pc, ws_open, ws_peer, _sessions, ws_wire,
                   ws_casts, ws_slots, beatVars, serverVars, lifeQuiet,
                   extraVars, histVars, poolVars, segVars>>

\* send_loop: the write of the audio frame completes; an error is thrown,
\* caught and ends the loop
WsSendWritten(w) ==
    /\ WsReactorRuns
    /\ ws_send[w] = "write"
    /\ WsWriteDone(w)
    /\ IF WsWriteFails(w)
       THEN /\ ws_open' = [ws_open EXCEPT ![w] = FALSE]
            /\ ws_send' = [ws_send EXCEPT ![w] = "done"]
            /\ UNCHANGED ws_wire
       ELSE /\ ws_wire' = [ws_wire EXCEPT ![w] = Append(@, AudioFrame(ws_out[w]))]
            /\ ws_send' = [ws_send EXCEPT ![w] = "top"]
            /\ UNCHANGED ws_open
    /\ ws_out' = [ws_out EXCEPT ![w] = <<>>]
    /\ audio_queue' = WsQueueKept(w, ws_pc[w], ws_send'[w])
    /\ UNCHANGED <<ws_is_running, ws_pc, ws_peer, _sessions,
                   ws_casts, ws_slots, beatVars, serverVars, lifeVars, histVars, poolVars, segVars>>

\* the close frame of ws->close(close_code::going_away)
CloseFrame == [kind |-> "close", payload |-> "going_away"]

\* ws->close(websocket::close_code::going_away, ec) on connection w: on an
\* open stream the close frame is sent (it arrives when the connection is
\* up) and the stream is no longer open; on a stream that is not open the
\* call fails and changes nothing
WsCloseGoingAway(w) ==
    IF ws_open[w]
    THEN /\ ws_open' = [ws_open EXCEPT ![w] = FALSE]
         /\ ws_close' = [ws_close EXCEPT ![w] = "going_away"]
         /\ ws_wire' = IF ws_peer[w] = "up"
                       THEN [ws_wire EXCEPT ![w] = Append(@, CloseFrame)]
                       ELSE ws_wire
    ELSE UNCHANGED <<ws_open, ws_close, ws_wire>>

\* heartbeat_loop, the loop condition: _is_running && ws->is_open(); then
\* timer.expires_after(_heartbeat_interval)
WsHbTop(w) ==
    /\ WsReactorRuns
    /\ ws_hb[w] = "top"
    /\ IF ws_is_running /\ ws_open[w]
       THEN /\ ws_hb' = [ws_hb EXCEPT ![w] = "timer"]
            /\ ws_timer' = [ws_timer EXCEPT ![w] = WS_HEARTBEAT_INTERVAL]
       ELSE /\ ws_hb' = [ws_hb EXCEPT ![w] = "done"]
            /\ UNCHANGED ws_timer
    /\ UNCHANGED <<ws_is_running, ws_pc, ws_open, ws_peer, ws_send, ws_out,
                   _sessions, audio_queue, ws_wire, ws_casts, ws_slots,
                   ws_age, ws_close, serverVars, lifeVars, histVars, poolVars, segVars>>

\* variant: the session times out when the age reaches the timeout
WsTimedOut_at(age) == age >= WS_HEARTBEAT_TIMEOUT

\* now - last > _heartbeat_timeout
WsTimedOut(age) == age > WS_HEARTBEAT_TIMEOUT

\* heartbeat_loop: the timer expires.  Timed out: close with going_away and
\* break; otherwise back to the loop condition
WsHbTimer(w) ==
    /\ WsReactorRuns
    /\ ws_hb[w] = "timer"
    /\ ws_timer[w] = 0
    /\ IF WsTimedOut(ws_age[w])
       THEN /\ WsCloseGoingAway(w)
            /\ ws_hb' = [ws_hb EXCEPT ![w] = "done"]
       ELSE /\ ws_hb' = [ws_hb EXCEPT ![w] = "top"]
            /\ UNCHANGED <<ws_open, ws_close, ws_wire>>
    /\ UNCHANGED <<ws_is_running, ws_pc, ws_peer, ws_send, ws_out,
                   _sessions, audio_queue, ws_casts, ws_slots,
                   ws_timer, ws_age, serverVars, lifeVars, histVars, poolVars, segVars>>

\* ages are cut off above every value the code distinguishes
WsAgeCap == WS_HEARTBEAT_TIMEOUT + WS_HEARTBEAT_INTERVAL + 1

\* One second passes on the WebSocket reactor.  Handlers that are ready
\* (expired timers, loop conditions, writes and reads that can complete) are
\* served first.
WsTick ==
    /\ \A w \in WsIds :
          /\ ws_hb[w] # "top"
          /\ ~(ws_hb[w] = "timer" /\ ws_timer[w] = 0)
          /\ ws_pc[w] \notin {"accept", "fmt", "pong"}
          /\ ~(ws_pc[w] = "read" /\ WsWriteFails(w))
          /\ ~(ws_send[w] = "top" /\ ~(ws_is_running /\ ws_open[w]))
          /\ ~(ws_send[w] = "write" /\ WsWriteDone(w))
    /\ \E w \in WsIds : ws_hb[w] = "timer"
    /\ ws_timer' = [w \in WsIds |->
                      IF ws_hb[w] = "timer" THEN ws_timer[w] - 1
                      ELSE ws_timer[w]]
    /\ ws_age' = [w \in WsIds |->
                    IF ws_hb[w] = "timer" \/ ws_pc[w] # "none"
                    THEN Min(ws_age[w] + 1, WsAgeCap) ELSE ws_age[w]]
    /\ UNCHANGED <<ws_is_running, ws_pc, ws_open, ws_peer, ws_send, ws_out,
                   _sessions, audio_queue, ws_wire, ws_casts, ws_slots,
                   ws_hb, ws_close, serverVars, lifeVars, histVars, poolVars, segVars>>

\* variant: the queue takes a buffer when it holds up to 50
Enqueue_upto(queue, buf) ==
    IF Len(queue) <= WS_QUEUE_LIMIT THEN Append(queue, buf) ELSE queue

\* if (session->audio_queue.size() < 50) session->audio_queue.emplace(data,
\* data + count)
Enqueue(queue, buf) ==
    IF Len(queue) < WS_QUEUE_LIMIT THEN Append(queue, buf) ELSE queue

\* variant: the loop over the sessions ends at the first session that is
\* not open or whose queue is full
WsFanOut_until_full(sessions, open, queues, buf) ==
    [w \in WsIds |->
        IF \A v \in sessions :
              v <= w => (open[v] /\ Len(queues[v]) < WS_QUEUE_LIMIT)
        THEN IF w \in sessions THEN Enqueue(queues[w], buf) ELSE queues[w]
        ELSE queues[w]]

\* websocket_manager::broadcast_audio_data, the loop over the sessions: the
\* queues after the call
WsFanOut(sessions, open, queues, buf) ==
    [w \in WsIds |->
        IF w \in sessions /\ open[w]
        THEN Enqueue(queues[w], buf)
        ELSE queues[w]]

\* the chunk of the k-th call with data: n bytes, which differ from call to
\* call (the chunks before the run are chunk 0)
WsChunk(k, n) == [i \in 1..n |-> (k + i - 1) % 256]

\* websocket_manager::broadcast_audio_data called by the capture thread
WsBroadcast ==
    \E count \in {0, WsChunkLen} :
       /\ IF ~ws_is_running \/ count = 0
          THEN UNCHANGED <<audio_queue, ws_casts>>
          ELSE /\ ws_casts < MaxWsCasts
               /\ ws_casts' = ws_casts + 1
               /\ audio_queue' = WsFanOut(_sessions, ws_open, audio_queue,
                                          WsChunk(ws_casts + 1, count))
       /\ UNCHANGED <<ws_is_running, ws_pc, ws_open, ws_peer, ws_send, ws_out,
                      _sessions, ws_wire, ws_slots,
                      beatVars, serverVars, lifeVars, histVars, poolVars, segVars>>

(***************************************************************************)
(* websocket_manager: start_server, stop_server, wait_server               *)
(***************************************************************************)
\* std::thread::joinable of _server_thread
WsJoinable == ws_thread \in {"bind", "run", "exited"}

\* websocket_manager::start_server: nothing when _is_running; otherwise
\* _ioc is a new io_context (the old one goes, and the coroutines it
\* held with it) and _server_thread is a new thread.  Assigning to a thread
\* that is joinable terminates the process.
WlStartServerCall ==
    /\ ~nm_crashed
    /\ wl_pc = "idle"
    /\ wl_ret' = "start_server"
    /\ IF ws_is_running
       THEN UNCHANGED <<ws_ioc, ws_thread, nm_crashed, ws_pc, ws_open,
                        ws_send, ws_hb, audio_queue>>
       ELSE /\ ws_ioc' = "ready"
            /\ ws_pc' = [w \in WsIds |-> "none"]
            /\ ws_open' = [w \in WsIds |-> FALSE]
            /\ ws_send' = [w \in WsIds |-> "none"]
            /\ ws_hb' = [w \in WsIds |-> "none"]
            /\ audio_queue' = [w \in WsIds |-> <<>>]
            /\ IF WsJoinable
               THEN /\ nm_crashed' = TRUE
                    /\ UNCHANGED ws_thread
               ELSE /\ ws_thread' = "bind"
                    /\ UNCHANGED nm_crashed
    /\ UNCHANGED <<wl_pc, ws_is_running, ws_peer, ws_out, _sessions, ws_wire,
                   ws_casts, ws_slots, ws_timer, ws_age, ws_close>>

\* start_server called while main is not followed
WlStartServer ==
    /\ WlStartServerCall
    /\ UNCHANGED <<nm_pc, nm_ioc, nm_tcp, nm_udp, nm_thread, capture,
                   nm_thrown, serverVars, histVars, poolVars, segVars,
                   mainVars, extraVars, fwdVars, sendVars>>

\* the worker thread: resolve, open, bind and listen; on success
\* _is_running = true, accept_loop is spawned and the thread enters
\* _ioc->run(); a failure is caught and logged, then _is_running = false and
\* the thread ends
WtBind ==
    /\ ~nm_crashed
    /\ ws_thread = "bind"
    /\ \E bound \in BOOLEAN :
         /\ ws_is_running' = bound
         /\ ws_thread' = IF bound THEN "run" ELSE "exited"
    /\ UNCHANGED <<wl_pc, wl_ret, ws_ioc, ws_pc, ws_open, ws_peer, ws_send,
                   ws_out, _sessions, audio_queue, ws_wire, ws_casts,
                   ws_slots, beatVars,
                   nm_pc, nm_ioc, nm_tcp, nm_udp, nm_thread, capture,
                   nm_thrown, nm_crashed,
                   serverVars, histVars, poolVars, segVars, mainVars, extraVars, fwdVars, sendVars>>

\* the worker thread: _ioc->run() returns when the reactor is stopped; then
\* _is_running = false and the thread ends
WtExit ==
    /\ ~nm_crashed
    /\ ws_thread = "run"
    /\ ws_ioc = "stopped"
    /\ ws_is_running' = FALSE
    /\ ws_thread' = "exited"
    /\ UNCHANGED <<wl_pc, wl_ret, ws_ioc, ws_pc, ws_open, ws_peer, ws_send,
                   ws_out, _sessions, audio_queue, ws_wire, ws_casts,
                   ws_slots, beatVars,
                   nm_pc, nm_ioc, nm_tcp, nm_udp, nm_thread, capture,
                   nm_thrown, nm_crashed,
                   serverVars, histVars, poolVars, segVars, mainVars, extraVars, fwdVars, sendVars>>

\* websocket_manager::stop_server: returns at once when !_is_running;
\* otherwise _is_running = false, every session of the map is closed with
\* going_away and the map is cleared
WlStopServer ==
    /\ ~nm_crashed
    /\ wl_pc = "idle"
    /\ IF ~ws_is_running
       THEN /\ wl_ret' = "stop_server"
            /\ UNCHANGED <<wl_pc, ws_is_running, ws_open, ws_close, ws_wire,
                           _sessions>>
       ELSE /\ wl_ret' = "none"
            /\ wl_pc' = "stop_ioc"
            /\ ws_is_running' = FALSE
            /\ ws_open' = [w \in WsIds |->
                             IF w \in _sessions THEN FALSE ELSE ws_open[w]]
            /\ ws_close' = [w \in WsIds |->
                              IF w \in _sessions /\ ws_open[w]
                              THEN "going_away" ELSE ws_close[w]]
            /\ ws_wire' = [w \in WsIds |->
                             IF w \in _sessions /\ ws_open[w]
                                /\ ws_peer[w] = "up"
                             THEN Append(ws_wire[w], CloseFrame)
                             ELSE ws_wire[w]]
            /\ _sessions' = {}
    /\ UNCHANGED <<ws_ioc, ws_thread, ws_pc, ws_peer, ws_send, ws_out,
                   audio_queue, ws_casts, ws_slots, ws_hb, ws_timer, ws_age,
                   nm_pc, nm_ioc, nm_tcp, nm_udp, nm_thread, capture,
                   nm_thrown, nm_crashed,
                   serverVars, histVars, poolVars, segVars, mainVars, extraVars, fwdVars, sendVars>>

\* stop_server: if (_ioc) _ioc->stop()
WlStopIoc ==
    /\ ~nm_crashed
    /\ wl_pc = "stop_ioc"
    /\ ws_ioc' = IF ws_ioc = "null" THEN "null" ELSE "stopped"
    /\ wl_pc' = "stop_join"
    /\ UNCHANGED <<wl_ret, ws_thread, wsVars,
                   nm_pc, nm_ioc, nm_tcp, nm_udp, nm_thread, capture,
                   nm_thrown, nm_crashed,
                   serverVars, histVars, poolVars, segVars, mainVars, extraVars, fwdVars, sendVars>>

\* stop_server: if (_server_thread.joinable()) _server_thread.join(); the
\* call returns
WlStopJoin ==
    /\ ~nm_crashed
    /\ wl_pc = "stop_join"
    /\ ws_thread \notin {"bind", "run"}
    /\ ws_thread' = IF WsJoinable THEN "joined" ELSE ws_thread
    /\ wl_pc' = "idle"
    /\ wl_ret' = "stop_server"
    /\ UNCHANGED <<ws_ioc, wsVars,
                   nm_pc, nm_ioc, nm_tcp, nm_udp, nm_thread, capture,
                   nm_thrown, nm_crashed,
                   serverVars, histVars, poolVars, segVars, mainVars, extraVars, fwdVars, sendVars>>

\* websocket_manager::wait_server
WlWaitServer ==
    /\ ~nm_crashed
    /\ wl_pc = "idle"
    /\ ws_thread \notin {"bind", "run"}
    /\ ws_thread' = IF WsJoinable THEN "joined" ELSE ws_thread
    /\ wl_ret' = "wait_server"
    /\ UNCHANGED <<wl_pc, ws_ioc, wsVars,
                   nm_pc, nm_ioc, nm_tcp, nm_udp, nm_thread, capture,
                   nm_thrown, nm_crashed,
                   serverVars, histVars, poolVars, segVars, mainVars, extraVars, fwdVars, sendVars>>

(***************************************************************************)
(* Initial states and specifications                                       *)
(***************************************************************************)
\* network_manager after a start_server that returned: both listeners
\* bound, the worker thread in _ioc->run(), the capture producing
LifeStarted ==
    /\ nm_pc = "idle"
    /\ nm_ioc = "ready"
    /\ nm_tcp = TRUE
    /\ nm_udp = "bound"
    /\ nm_thread = "running"
    /\ capture = "on"
    /\ nm_thrown = "none"
    /\ nm_crashed = FALSE

\* websocket_manager after start_server, when the worker thread has bound
\* the listener and is in _ioc->run()
WsLifeStarted ==
    /\ ws_is_running = TRUE
    /\ wl_pc = "idle"
    /\ wl_ret = "start_server"
    /\ ws_ioc = "ready"
    /\ ws_thread = "run"

(***************************************************************************)
(* main: --bind [host][:<port>]                                            *)
(***************************************************************************)
DEFAULT_PORT == 65530
MIN_PORT == 1
MAX_PORT == 65535

\* a std::string is the sequence of its characters
Digits == {"0", "1", "2", "3", "4", "5", "6", "7", "8", "9"}

DigitValue(c) ==
    CASE c = "0" -> 0 [] c = "1" -> 1 [] c = "2" -> 2 [] c = "3" -> 3
      [] c = "4" -> 4 [] c = "5" -> 5 [] c = "6" -> 6 [] c = "7" -> 7
      [] c = "8" -> 8 [] c = "9" -> 9

\* what isspace accepts
WhiteSpace == {" "}

\* std::numeric_limits<int>::max() and min()
IntMax == 2^30 - 1 + 2^30
IntMin == -IntMax - 1

\* s.find(':'): the position of the first ':' counted from 1, 0 for npos
RECURSIVE FindFrom(_, _)
FindFrom(s, i) ==
    IF i > Len(s) THEN 0
    ELSE IF s[i] = ":" THEN i
    ELSE FindFrom(s, i + 1)

\* the number of characters of str from position i on that are in set
RECURSIVE Run(_, _, _)
Run(str, i, set) ==
    IF i <= Len(str) /\ str[i] \in set THEN 1 + Run(str, i + 1, set) ELSE 0

\* the conversion of the digits str[i..j] into an int of the given sign,
\* from the value acc of the digits before them; no value as soon as it
\* leaves [IntMin, IntMax]
RECURSIVE Accumulate(_, _, _, _, _)
Accumulate(str, i, j, negative, acc) ==
    IF i > j THEN [in_range |-> TRUE, value |-> acc]
    ELSE LET d == DigitValue(str[i])
         IN IF \/ acc > IntMax \div 10
               \/ acc < -(IntMax \div 10)
               \/ (negative /\ acc * 10 < IntMin + d)
               \/ (~negative /\ acc * 10 > IntMax - d)
            THEN [in_range |-> FALSE]
            ELSE Accumulate(str, i + 1, j, negative,
                            IF negative THEN acc * 10 - d ELSE acc * 10 + d)

\* std::stoi(str, &parsed_chars): leading white space is skipped, one sign
\* is taken, then the digits; std::invalid_argument without a digit,
\* std::out_of_range when the value is no int
stoi(str) ==
    LET ws == Run(str, 1, WhiteSpace)
        sign == IF ws < Len(str) /\ str[ws + 1] \in {"+", "-"} THEN 1 ELSE 0
        first == ws + sign + 1
        n == Run(str, first, Digits)
        r == Accumulate(str, first, first + n - 1,
                        sign = 1 /\ str[ws + 1] = "-", 0)
    IN IF n = 0
       THEN [thrown |-> "invalid_argument"]
       ELSE IF ~r.in_range
       THEN [thrown |-> "out_of_range"]
       ELSE [thrown |-> "none", value |-> r.value,
             parsed_chars |-> ws + sign + n]

\* the port of the bind value s: DEFAULT_PORT without ':', else the text
\* after the first ':' converted by std::stoi; EXIT_FAILURE for an empty
\* text, a conversion that throws or stops before the end, and a value
\* outside [MIN_PORT, MAX_PORT]
BindPort_without_range_check(s) ==
    LET pos == FindFrom(s, 1)
        port_str == SubSeq(s, pos + 1, Len(s))
        r == stoi(port_str)
    IN IF pos = 0 THEN [exit |-> "none", port |-> DEFAULT_PORT]
       ELSE IF port_str = EmptyString THEN [exit |-> "EXIT_FAILURE"]
       ELSE IF r.thrown # "none" THEN [exit |-> "EXIT_FAILURE"]
       ELSE IF r.parsed_chars # Len(port_str) THEN [exit |-> "EXIT_FAILURE"]
       ELSE [exit |-> "none", port |-> r.value % 65536]

BindPort(s) ==
    LET pos == FindFrom(s, 1)
        port_str == SubSeq(s, pos + 1, Len(s))
        r == stoi(port_str)
    IN IF pos = 0 THEN [exit |-> "none", port |-> DEFAULT_PORT]
       ELSE IF port_str = EmptyString THEN [exit |-> "EXIT_FAILURE"]
       ELSE IF r.thrown # "none" THEN [exit |-> "EXIT_FAILURE"]
       ELSE IF r.parsed_chars # Len(port_str) THEN [exit |-> "EXIT_FAILURE"]
       ELSE IF r.value < MIN_PORT \/ r.value > MAX_PORT
       THEN [exit |-> "EXIT_FAILURE"]
       ELSE [exit |-> "none", port |-> r.value]

\* the host of the bind value s: the text before the first ':', the whole
\* text without one
BindHost(s) ==
    LET pos == FindFrom(s, 1)
    IN IF pos = 0 THEN s ELSE SubSeq(s, 1, pos - 1)

\* network_manager::get_default_address()
get_default_address == select_default_address(address_list)

\* the port of the WebSocket server: --websocket-port when it is in
\* (0, MAX_PORT], else static_cast<uint16_t>(port + 1)
WsPort(ws_port_val, port) ==
    IF ws_port_val > 0 /\ ws_port_val <= MAX_PORT
    THEN ws_port_val
    ELSE (port + 1) % 65536

\* the broadcaster main registers: the WebSocket manager
ws_manager == CHOOSE b \in Broadcasters : \A c \in Broadcasters : b <= c

mainFrame == <<serverVars, histVars, poolVars, segVars, sendVars, extraVars>>

\* main with --bind, up to the construction of the managers: the value is
\* split at the first ':', the port is parsed and checked, an empty host is
\* replaced by the default address; return EXIT_FAILURE on a bad port and
\* when no address is found
MainParseBind ==
    /\ main_pc = "bind"
    /\ LET parsed == BindPort(main_in.bind)
           given == BindHost(main_in.bind)
           host == IF given = EmptyString THEN get_default_address ELSE given
       IN IF parsed.exit # "none" \/ host = EmptyString
          THEN /\ main_pc' = "exited"
               /\ main_out' = [exit |-> "EXIT_FAILURE"]
          ELSE /\ main_pc' = "ws_start"
               /\ main_out' = [exit |-> "none", host |-> host,
                               port |-> parsed.port,
                               ws_port |-> WsPort(main_in.websocket_port,
                                                  parsed.port)]
    /\ UNCHANGED <<address_list, selected, main_in,
                   nm_pc, nm_ioc, nm_tcp, nm_udp, nm_thread, capture,
                   nm_thrown, nm_crashed, wsLife, fwdVars, wsVars, mainFrame>>

\* main: ws_manager->start_server(host, ws_port, capture_config)
MainStartWs ==
    /\ main_pc = "ws_start"
    /\ main_pc' = "add_broadcaster"
    /\ WlStartServerCall
    /\ UNCHANGED <<address_list, selected, main_in, main_out,
                   nm_pc, nm_ioc, nm_tcp, nm_udp, nm_thread, capture,
                   nm_thrown, fwdVars, mainFrame>>

\* main: network_manager->add_broadcaster(ws_manager)
MainAddBroadcaster ==
    /\ main_pc = "add_broadcaster"
    /\ main_pc' = "nm_start"
    /\ AddBroadcasterCall(ws_manager)
    /\ UNCHANGED <<address_list, selected, main_in, main_out,
                   nm_pc, nm_ioc, nm_tcp, nm_udp, nm_thread, capture,
                   nm_thrown, nm_crashed, wsLife, wsVars, mainFrame>>

\* main: network_manager->start_server(host, port, capture_config) is
\* entered
MainStartNm ==
    /\ main_pc = "nm_start"
    /\ main_pc' = "in_start_server"
    /\ NmStartServerCall
    /\ UNCHANGED <<address_list, selected, main_in, main_out,
                   wsLife, fwdVars, wsVars, mainFrame>>

\* main is not followed
MainOff ==
    /\ address_list = <<>>
    /\ selected = NotCalled
    /\ main_in = [bind |-> EmptyString, websocket_port |-> 0]
    /\ main_pc = "off"
    /\ main_out = [exit |-> "none"]

\* no additional broadcaster is registered, no broadcast call was made, no
\* send_to is under way
NoCalls ==
    /\ _additional_broadcasters = <<>>
    /\ bc_calls = <<>>
    /\ cast_in = [data |-> <<>>, count |-> 0, block_align |-> 1]
    /\ flying = <<>>
    /\ issued = <<>>
    /\ logged_ids = {}
    /\ warn_count = [id \in {} |-> 0]
    /\ ws_msg = [w \in WsIds |-> "none"]
    /\ mtx = [m \in Mutexes |-> "free"]
    /\ format_json = NotBuilt
    /\ th = [t \in Threads |-> <<>>]

\* the same, in a run where main is not followed
NoCastYet ==
    /\ NoCalls
    /\ MainOff
    /\ _capture_config = DefaultConfig

\* the same, for a capture that hands over chunks of up to MaxChunk bytes
NoForward ==
    /\ NoCastYet
    /\ chunk_lens = 0..MaxChunk
    /\ job_slots = MaxJobs

\* network_manager after construction, before start_server
LifeConstructed ==
    /\ nm_pc = "idle"
    /\ nm_ioc = "null"
    /\ nm_tcp = FALSE
    /\ nm_udp = "null"
    /\ nm_thread = "none"
    /\ capture = "off"
    /\ nm_thrown = "none"
    /\ nm_crashed = FALSE

\* network_manager after construction: no session, empty registry
SessionFields ==
    /\ sock = [s \in Streams |-> "none"]
    /\ conn = [s \in Streams |-> "up"]
    /\ rl = [s \in Streams |-> "none"]
    /\ hb = [s \in Streams |-> "none"]
    /\ timer = [s \in Streams |-> 0]
    /\ _playing_peer_list = <<>>
    /\ g_id = 0
    /\ jobs = <<>>
    /\ start_log = <<>>
    /\ hb_gap = [s \in Streams |-> 0]

\* the same, with no additional broadcaster and no call made
SessionsInit ==
    /\ SessionFields
    /\ NoForward

\* network_manager after construction and start_server
ServerInit ==
    /\ SessionsInit
    /\ LifeStarted

\* _buffer_pool(std::make_unique<buffer_pool>(MAX_UDP_PAYLOAD_SIZE, 16, 128))
ServerPoolInit ==
    /\ pool_cfg = [buffer_size |-> MAX_UDP_PAYLOAD_SIZE,
                   max_pool_size |-> POOL_MAX_SIZE]
    /\ _pool = PoolConstruct(MAX_UDP_PAYLOAD_SIZE, POOL_INITIAL_CAPACITY)
    /\ held = <<>>
    /\ untouched = POOL_INITIAL_CAPACITY

SegOff ==
    /\ seg_pc = "off"
    /\ seg_in = [data |-> <<>>, count |-> 0, block_align |-> 1]
    /\ max_seg_size = MAX_UDP_PAYLOAD_SIZE
    /\ begin_pos = 0
    /\ seg_list = <<>>

\* no heartbeat_loop yet
WsBeatOff ==
    /\ ws_hb = [w \in WsIds |-> "none"]
    /\ ws_timer = [w \in WsIds |-> 0]
    /\ ws_age = [w \in WsIds |-> 0]
    /\ ws_close = [w \in WsIds |-> "none"]

\* websocket_manager after start_server, no connection yet
WsInit ==
    /\ WsLifeStarted
    /\ ws_pc = [w \in WsIds |-> "none"]
    /\ ws_open = [w \in WsIds |-> FALSE]
    /\ ws_peer = [w \in WsIds |-> "up"]
    /\ ws_send = [w \in WsIds |-> "none"]
    /\ ws_out = [w \in WsIds |-> <<>>]
    /\ _sessions = {}
    /\ audio_queue = [w \in WsIds |-> <<>>]
    /\ ws_wire = [w \in WsIds |-> <<>>]
    /\ ws_casts = 0
    /\ ws_slots = MaxWs
    /\ WsBeatOff

\* Spec: the control plane (sessions, registry, heartbeat) under time
Init ==
    /\ ServerInit
    /\ stream_slots = MaxStreams
    /\ WsInit
    /\ udp_server_family = "v4"
    /\ ServerPoolInit
    /\ SegOff

Next ==
    \/ \E s \in Streams : Accept(s)
    \/ \E s \in Streams : PeerDown(s)
    \/ \E s \in Streams : ReadError(s)
    \/ \E s \in Streams : ReadGetFormat(s)
    \/ \E s \in Streams : ReadStartPlay(s)
    \/ \E s \in Streams : ReadHeartbeat(s)
    \/ \E s \in Streams : ReadBadCmd(s)
    \/ \E s \in Streams : ReplyWritten(s)
    \/ \E s \in Streams : HbTimer(s)
    \/ \E s \in Streams : HbWritten(s)
    \/ Tick

Spec == Init /\ [][Next]_vars

\* SpecCast: sessions, UDP registration and the datagram fan-out, in the
\* time before the first heartbeat timer expires; the server socket is
\* IPv4 or IPv6
InitCast ==
    /\ ServerInit
    /\ stream_slots = MaxStreams
    /\ WsInit
    /\ udp_server_family \in {"v4", "v6"}
    /\ ServerPoolInit
    /\ SegOff

NextCast ==
    \/ \E s \in Streams : Accept(s)
    \/ \E s \in Streams : PeerDown(s)
    \/ \E s \in Streams : ReadError(s)
    \/ \E s \in Streams : ReadGetFormat(s)
    \/ \E s \in Streams : ReadStartPlay(s)
    \/ \E s \in Streams : ReadHeartbeat(s)
    \/ \E s \in Streams : ReadBadCmd(s)
    \/ \E s \in Streams : ReplyWritten(s)
    \/ FillUdpPeer
    \/ Broadcast
    \/ RunJob
    \/ SendDone

SpecCast == InitCast /\ [][NextCast]_vars

\* SpecPeers: several playing listeners whose heartbeat timers expire now;
\* a listener was admitted one interval ago, or two intervals ago and has
\* sent no heartbeat since.  The server socket is IPv6.  No time passes: a
\* timer that is armed again does not expire.
InitPeers ==
    /\ stream_slots = MaxPeers
    /\ LifeStarted
    /\ NoForward
    /\ WsInit
    /\ udp_server_family = "v6"
    /\ ServerPoolInit
    /\ SegOff
    /\ sock = [s \in Streams |-> "open"]
    /\ conn = [s \in Streams |-> "up"]
    /\ rl = [s \in Streams |-> "read"]
    /\ hb = [s \in Streams |-> "timer"]
    /\ timer = [s \in Streams |-> 0]
    /\ g_id = MaxPeers
    /\ jobs = <<>>
    /\ start_log = [i \in 1..MaxPeers |-> i]
    /\ \E ages \in [Streams -> {HEARTBEAT_INTERVAL, 2 * HEARTBEAT_INTERVAL}] :
          /\ _playing_peer_list =
                [s \in Streams |-> [id |-> s, udp_peer |-> DefaultEndpoint,
                                    age |-> ages[s]]]
          /\ hb_gap = ages

NextPeers ==
    \/ \E s \in Streams : Accept(s)
    \/ \E s \in Streams : PeerDown(s)
    \/ \E s \in Streams : ReadError(s)
    \/ \E s \in Streams : ReadStartPlay(s)
    \/ \E s \in Streams : ReadBadCmd(s)
    \/ \E s \in Streams : ReplyWritten(s)
    \/ \E s \in Streams : HbTimer(s)
    \/ \E s \in Streams : HbWritten(s)
    \/ FillUdpPeer

SpecPeers == InitPeers /\ [][NextPeers]_vars

\* SpecCmd: connected listeners send commands; some of them are playing,
\* with last ticks that have aged
InitCmd ==
    /\ stream_slots = MaxPeers
    /\ LifeStarted
    /\ NoForward
    /\ WsInit
    /\ udp_server_family = "v6"
    /\ ServerPoolInit
    /\ SegOff
    /\ sock = [s \in Streams |-> "open"]
    /\ conn = [s \in Streams |-> "up"]
    /\ rl = [s \in Streams |-> "read"]
    /\ timer = [s \in Streams |-> 0]
    /\ g_id = MaxPeers
    /\ jobs = <<>>
    /\ start_log = [i \in 1..MaxPeers |-> i]
    /\ \E playing \in SUBSET Streams,
          ages \in [Streams -> {HEARTBEAT_INTERVAL, 2 * HEARTBEAT_INTERVAL}] :
          /\ hb = [s \in Streams |-> IF s \in playing THEN "timer" ELSE "none"]
          /\ _playing_peer_list =
                [s \in playing |-> [id |-> s, udp_peer |-> DefaultEndpoint,
                                    age |-> ages[s]]]
          /\ hb_gap = [s \in Streams |-> IF s \in playing THEN ages[s] ELSE 0]

NextCmd ==
    \/ \E s \in Streams : PeerDown(s)
    \/ \E s \in Streams : ReadError(s)
    \/ \E s \in Streams : ReadGetFormat(s)
    \/ \E s \in Streams : ReadStartPlay(s)
    \/ \E s \in Streams : ReadHeartbeat(s)
    \/ \E s \in Streams : ReadBadCmd(s)
    \/ \E s \in Streams : ReplyWritten(s)

SpecCmd == InitCmd /\ [][NextCmd]_vars

\* chunk lengths and block aligns of SpecSeg
SegCounts ==
    {c \in {q * MAX_UDP_PAYLOAD_SIZE + d :
               q \in 0..MaxFullSegs, d \in (0 - MaxDelta)..MaxDelta} : c >= 0}

SegAligns ==
    (1..MaxBlockAlign) \cup
    {MAX_UDP_PAYLOAD_SIZE - 1, MAX_UDP_PAYLOAD_SIZE, MAX_UDP_PAYLOAD_SIZE + 1}

InitSeg ==
    /\ ServerInit
    /\ stream_slots = MaxStreams
    /\ WsInit
    /\ udp_server_family = "v4"
    /\ ServerPoolInit
    /\ seg_pc = "entry"
    /\ \E count \in SegCounts, block_align \in SegAligns :
          seg_in = [data |-> ChunkData(count), count |-> count,
                    block_align |-> block_align]
    /\ max_seg_size = MAX_UDP_PAYLOAD_SIZE
    /\ begin_pos = 0
    /\ seg_list = <<>>

SpecSeg == InitSeg /\ [][NextSeg]_vars

\* the reactor serves every completion and every expired timer of the
\* sessions, and time passes
FairSpec ==
    /\ Spec
    /\ \A s \in Streams :
          /\ WF_vars(ReadError(s))
          /\ WF_vars(ReplyWritten(s))
          /\ WF_vars(HbTimer(s))
          /\ WF_vars(HbWritten(s))
    /\ WF_vars(Tick)

\* the capture thread keeps running the call it is in
FairSpecSeg == SpecSeg /\ WF_vars(NextSeg)

InitPool ==
    /\ ServerInit
    /\ stream_slots = MaxStreams
    /\ WsInit
    /\ udp_server_family = "v4"
    /\ SegOff
    /\ \E buffer_size \in 1..MaxBufferSize,
          initial_capacity \in 0..MaxInitialCapacity,
          max_pool_size \in 0..MaxPoolSize :
          /\ pool_cfg = [buffer_size |-> buffer_size,
                         max_pool_size |-> max_pool_size]
          /\ _pool = PoolConstruct(buffer_size, initial_capacity)
          /\ untouched = initial_capacity
    /\ held = <<>>

SpecPool == InitPool /\ [][NextPool]_vars

\* SpecWs: the WebSocket gateway, from the accept of a connection on
InitWs ==
    /\ ServerInit
    /\ stream_slots = MaxStreams
    /\ udp_server_family = "v4"
    /\ ServerPoolInit
    /\ SegOff
    /\ WsInit

NextWs ==
    \/ \E w \in WsIds : WsAccept(w)
    \/ \E w \in WsIds : WsPeerDown(w)
    \/ \E w \in WsIds : WsHandshake(w)
    \/ \E w \in WsIds : WsFormatWritten(w)
    \/ \E w \in WsIds : WsReadError(w)
    \/ \E w \in WsIds : WsReadMessage(w)
    \/ \E w \in WsIds : WsPongWritten(w)
    \/ \E w \in WsIds : WsSendStep(w)
    \/ \E w \in WsIds : WsSendWritten(w)
    \/ \E w \in WsIds : WsHbTop(w)
    \/ WsBroadcast

SpecWs == InitWs /\ [][NextWs]_vars

\* SpecWsCast: the fan-out to WebSocket sessions that are established, with
\* empty queues or with the backlog of a browser that has not been reading;
\* the browsers only listen
WsBacklog == WS_QUEUE_LIMIT - MaxWsCasts + 1

InitWsCast ==
    /\ ServerInit
    /\ stream_slots = MaxStreams
    /\ udp_server_family = "v4"
    /\ ServerPoolInit
    /\ SegOff
    /\ WsLifeStarted
    /\ ws_casts = 0
    /\ ws_slots = 0
    /\ \E backlog \in [WsIds -> {0, WsBacklog}] :
          /\ ws_pc = [w \in WsIds |-> "read"]
          /\ ws_open = [w \in WsIds |-> TRUE]
          /\ ws_peer = [w \in WsIds |-> "up"]
          /\ ws_send = [w \in WsIds |-> "top"]
          /\ ws_out = [w \in WsIds |-> <<>>]
          /\ _sessions = WsIds
          /\ audio_queue = [w \in WsIds |->
                              [i \in 1..backlog[w] |-> WsChunk(0, WsChunkLen)]]
          /\ ws_wire = [w \in WsIds |-> <<FormatFrame>>]
          /\ ws_hb = [w \in WsIds |-> "timer"]
          /\ ws_timer = [w \in WsIds |-> WS_HEARTBEAT_INTERVAL]
          /\ ws_age = [w \in WsIds |-> 0]
          /\ ws_close = [w \in WsIds |-> "none"]

NextWsCast ==
    \/ \E w \in WsIds : WsPeerDown(w)
    \/ \E w \in WsIds : WsReadError(w)
    \/ \E w \in WsIds : WsSendStep(w)
    \/ \E w \in WsIds : WsSendWritten(w)
    \/ WsBroadcast

SpecWsCast == InitWsCast /\ [][NextWsCast]_vars

\* SpecWsOrder: established WebSocket sessions with empty queues whose
\* browsers listen and send messages; ws_wire holds the frames written since
\* the start of the run
InitWsOrder ==
    /\ ServerInit
    /\ stream_slots = MaxStreams
    /\ udp_server_family = "v4"
    /\ ServerPoolInit
    /\ SegOff
    /\ WsLifeStarted
    /\ ws_casts = 0
    /\ ws_slots = 0
    /\ ws_pc = [w \in WsIds |-> "read"]
    /\ ws_open = [w \in WsIds |-> TRUE]
    /\ ws_peer = [w \in WsIds |-> "up"]
    /\ ws_send = [w \in WsIds |-> "top"]
    /\ ws_out = [w \in WsIds |-> <<>>]
    /\ _sessions = WsIds
    /\ audio_queue = [w \in WsIds |-> <<>>]
    /\ ws_wire = [w \in WsIds |-> <<>>]
    /\ ws_hb = [w \in WsIds |-> "timer"]
    /\ ws_timer = [w \in WsIds |-> WS_HEARTBEAT_INTERVAL]
    /\ ws_age = [w \in WsIds |-> 0]
    /\ ws_close = [w \in WsIds |-> "none"]

NextWsOrder ==
    \/ \E w \in WsIds : WsPeerDown(w)
    \/ \E w \in WsIds : WsReadError(w)
    \/ \E w \in WsIds : WsReadMessage(w)
    \/ \E w \in WsIds : WsPongWritten(w)
    \/ \E w \in WsIds : WsSendStep(w)
    \/ \E w \in WsIds : WsSendWritten(w)
    \/ WsBroadcast

SpecWsOrder == InitWsOrder /\ [][NextWsOrder]_vars

\* SpecFormat: the format message for the command lines main accepts
ChannelValues == {0, 1, 2, 8}
SampleRates == {0, 8000, 48000, 192000}

InitFormat ==
    /\ SessionFields
    /\ NoCalls
    /\ MainOff
    /\ chunk_lens = 0..MaxChunk
    /\ job_slots = MaxJobs
    /\ _capture_config \in [encoding : Encodings, channels : ChannelValues,
                             sample_rate : SampleRates]
    /\ stream_slots = MaxStreams
    /\ udp_server_family = "v4"
    /\ ServerPoolInit
    /\ SegOff
    /\ WsInit
    /\ LifeStarted

NextFormat == BuildFormatJson

SpecFormat == InitFormat /\ [][NextFormat]_vars

\* SpecLock: the threads of the program in the functions that take a mutex
NextLock ==
    \/ \E t \in Threads : LockCall(t)
    \/ \E t \in Threads : LockStep(t)

SpecLock == InitWsOrder /\ [][NextLock]_vars

\* a thread that is ready to go on infinitely often goes on
FairSpecLock ==
    /\ SpecLock
    /\ \A t \in Threads : SF_vars(LockStep(t))

\* the reactor serves every handler that stays ready
FairSpecWsOrder ==
    /\ SpecWsOrder
    /\ \A w \in WsIds :
          /\ WF_vars(WsReadError(w))
          /\ WF_vars(WsPongWritten(w))
          /\ WF_vars(WsSendStep(w))
          /\ WF_vars(WsSendWritten(w))

\* SpecWsBeat: established WebSocket sessions under time, from the start
\* of their heartbeat_loop; the capture is silent
InitWsBeat ==
    /\ ServerInit
    /\ stream_slots = MaxStreams
    /\ udp_server_family = "v4"
    /\ ServerPoolInit
    /\ SegOff
    /\ WsLifeStarted
    /\ ws_casts = 0
    /\ ws_slots = 0
    /\ ws_pc = [w \in WsIds |-> IF w <= MaxWs THEN "read" ELSE "none"]
    /\ ws_open = [w \in WsIds |-> w <= MaxWs]
    /\ ws_peer = [w \in WsIds |-> "up"]
    /\ ws_send = [w \in WsIds |-> IF w <= MaxWs THEN "top" ELSE "none"]
    /\ ws_out = [w \in WsIds |-> <<>>]
    /\ _sessions = {w \in WsIds : w <= MaxWs}
    /\ audio_queue = [w \in WsIds |-> <<>>]
    /\ ws_wire = [w \in WsIds |-> IF w <= MaxWs THEN <<FormatFrame>> ELSE <<>>]
    /\ ws_hb = [w \in WsIds |-> IF w <= MaxWs THEN "top" ELSE "none"]
    /\ ws_timer = [w \in WsIds |-> 0]
    /\ ws_age = [w \in WsIds |-> 0]
    /\ ws_close = [w \in WsIds |-> "none"]

NextWsBeat ==
    \/ \E w \in WsIds : WsPeerDown(w)
    \/ \E w \in WsIds : WsReadError(w)
    \/ \E w \in WsIds : WsReadMessage(w)
    \/ \E w \in WsIds : WsPongWritten(w)
    \/ \E w \in WsIds : WsSendStep(w)
    \/ \E w \in WsIds : WsHbTop(w)
    \/ \E w \in WsIds : WsHbTimer(w)
    \/ WsTick

SpecWsBeat == InitWsBeat /\ [][NextWsBeat]_vars

\* SpecLife: the life cycle of the primary server, from construction on:
\* start_server, stop_server and wait_server called by the user thread in
\* any order, the worker thread, one listener, and the capture thread
InitLife ==
    /\ SessionsInit
    /\ stream_slots = MaxStreams
    /\ WsInit
    /\ udp_server_family = "v4"
    /\ ServerPoolInit
    /\ SegOff
    /\ LifeConstructed

NextLife ==
    \/ NmStartServer
    \/ NmStartTcp
    \/ NmStartUdp
    \/ NmStartThread
    \/ NmWorkerExit
    \/ NmStopServer
    \/ NmStopJoin
    \/ NmStopCapture
    \/ NmStopClear
    \/ NmWaitServer
    \/ \E s \in Streams : Accept(s)
    \/ \E s \in Streams : ReadStartPlay(s)
    \/ \E s \in Streams : ReplyWritten(s)
    \/ Broadcast
    \/ RunJob
    \/ SendDone

SpecLife == InitLife /\ [][NextLife]_vars

\* websocket_manager after construction
WsConstructed ==
    /\ ws_is_running = FALSE
    /\ wl_pc = "idle"
    /\ wl_ret = "none"
    /\ ws_ioc = "null"
    /\ ws_thread = "none"
    /\ ws_pc = [w \in WsIds |-> "none"]
    /\ ws_open = [w \in WsIds |-> FALSE]
    /\ ws_peer = [w \in WsIds |-> "up"]
    /\ ws_send = [w \in WsIds |-> "none"]
    /\ ws_out = [w \in WsIds |-> <<>>]
    /\ _sessions = {}
    /\ audio_queue = [w \in WsIds |-> <<>>]
    /\ ws_wire = [w \in WsIds |-> <<>>]
    /\ ws_casts = 0
    /\ ws_slots = MaxWs
    /\ WsBeatOff

\* both servers constructed, none started
ProcessStart ==
    /\ SessionFields
    /\ NoCalls
    /\ _capture_config = DefaultConfig
    /\ chunk_lens = 0..MaxChunk
    /\ job_slots = MaxJobs
    /\ LifeConstructed
    /\ stream_slots = MaxStreams
    /\ udp_server_family = "v4"
    /\ ServerPoolInit
    /\ SegOff
    /\ WsConstructed

\* SpecWsLife: the life cycle of the WebSocket gateway, from construction
\* on: start_server, stop_server and wait_server called by the user thread
\* in any order, the worker thread, and one browser connection
InitWsLife ==
    /\ ProcessStart
    /\ MainOff

NextWsLife ==
    \/ WlStartServer
    \/ WtBind
    \/ WtExit
    \/ WlStopServer
    \/ WlStopIoc
    \/ WlStopJoin
    \/ WlWaitServer
    \/ \E w \in WsIds : WsAccept(w)
    \/ \E w \in WsIds : WsHandshake(w)
    \/ \E w \in WsIds : WsFormatWritten(w)
    \/ \E w \in WsIds : WsPeerDown(w)
    \/ \E w \in WsIds : WsReadError(w)

SpecWsLife == InitWsLife /\ [][NextWsLife]_vars


\* The first n listeners are playing over an IPv4 server socket, the first
\* k of them with their registered endpoint, the others, whose
\* registration datagram has not arrived, with the default one; their
\* heartbeat timers are not due
Playing(n, k) ==
    /\ stream_slots = MaxPeers
    /\ LifeStarted
    /\ NoCastYet
    /\ WsInit
    /\ udp_server_family = "v4"
    /\ ServerPoolInit
    /\ SegOff
    /\ conn = [s \in Streams |-> "up"]
    /\ timer = [s \in Streams |-> HEARTBEAT_INTERVAL]
    /\ g_id = MaxPeers
    /\ jobs = <<>>
    /\ hb_gap = [s \in Streams |-> 0]
    /\ sock = [s \in Streams |-> IF s <= n THEN "open" ELSE "closed"]
    /\ rl = [s \in Streams |-> IF s <= n THEN "read" ELSE "done"]
    /\ hb = [s \in Streams |-> IF s <= n THEN "timer" ELSE "done"]
    /\ start_log = [i \in 1..MaxPeers |-> i]
    /\ _playing_peer_list =
          [s \in 1..n |->
             [id |-> s,
              udp_peer |-> IF s <= k
                           THEN [fam |-> "v4", host |-> s, port |-> 1]
                           ELSE DefaultEndpoint,
              age |-> 0]]

\* SpecMix: n listeners are playing on an IPv4 or a dual-stack IPv6 server
\* and none has registered its datagram endpoint yet; registrations arrive
\* while the capture broadcasts short chunks, the reactor runs a job before
\* the next one is posted and the sends complete.  No time passes.
InitMix ==
    /\ stream_slots = MaxPeers
    /\ LifeStarted
    /\ NoCastYet
    /\ WsInit
    /\ udp_server_family \in {"v4", "v6"}
    /\ ServerPoolInit
    /\ SegOff
    /\ conn = [s \in Streams |-> "up"]
    /\ timer = [s \in Streams |-> HEARTBEAT_INTERVAL]
    /\ g_id = MaxPeers
    /\ jobs = <<>>
    /\ hb_gap = [s \in Streams |-> 0]
    /\ start_log = [i \in 1..MaxPeers |-> i]
    /\ chunk_lens = 0..MaxChunk
    /\ job_slots = 1
    /\ \E n \in 0..MaxPeers :
          /\ sock = [s \in Streams |-> IF s <= n THEN "open" ELSE "closed"]
          /\ rl = [s \in Streams |-> IF s <= n THEN "read" ELSE "done"]
          /\ hb = [s \in Streams |-> IF s <= n THEN "timer" ELSE "done"]
          /\ _playing_peer_list =
                [s \in 1..n |-> [id |-> s, udp_peer |-> DefaultEndpoint,
                                 age |-> 0]]

NextMix ==
    \/ FillUdpPeer
    \/ Broadcast
    \/ RunJob
    \/ SendDone

SpecMix == InitMix /\ [][NextMix]_vars

\* SpecSend: the datagram sends.  The capture broadcasts chunks of more
\* than one datagram payload to the playing listeners, the reactor runs the
\* jobs and the sends complete.  No time passes.
InitSend ==
    /\ \E n \in 0..MaxPeers : \E k \in 0..n : Playing(n, k)
    /\ chunk_lens = {0} \cup LongChunks
    /\ job_slots = MaxJobs

NextSend ==
    \/ Broadcast
    \/ RunJob
    \/ SendDone

SpecSend == InitSend /\ [][NextSend]_vars

\* SpecForward: additional broadcasters are registered while the capture
\* broadcasts short chunks to the playing listeners; the reactor runs a job
\* before the next one is posted
InitForward ==
    /\ \E n \in 0..MaxPeers : Playing(n, n)
    /\ chunk_lens = 0..MaxChunk
    /\ job_slots = 1

NextForward ==
    \/ AddBroadcaster
    \/ Broadcast
    \/ RunJob
    \/ SendDone

SpecForward == InitForward /\ [][NextForward]_vars

\* the IPv4 addresses of interfaces the lists are made of
AddrSamples ==
    {<<10, 1, 2, 3>>, <<172, 16, 0, 1>>, <<192, 168, 1, 10>>,
     <<8, 8, 8, 8>>, <<172, 48, 0, 1>>, <<203, 0, 113, 5>>}

\* the address lists of up to n addresses
AddrLists(n) == UNION {[1..k -> AddrSamples] : k \in 0..n}

\* SpecAddr: select_default_address called on an address list of up to
\* MaxAddrs addresses
InitAddr ==
    /\ ProcessStart
    /\ address_list \in AddrLists(MaxAddrs)
    /\ selected = NotCalled
    /\ main_in = [bind |-> EmptyString, websocket_port |-> 0]
    /\ main_pc = "off"
    /\ main_out = [exit |-> "none"]

NextAddr == SelectDefaultAddress

SpecAddr == InitAddr /\ [][NextAddr]_vars

\* the characters the port texts are made of
PortChars == {"0", "9", "a", "-", " "}

\* the port texts of up to n of these characters
PortStrings(n) == UNION {[1..k -> PortChars] : k \in 0..n}

\* port texts at the limits of the port range and of int, with a sign and
\* with a second ':'
LimitPorts ==
    {<<"1">>, <<"6", "5", "5", "3", "5">>, <<"6", "5", "5", "3", "6">>,
     <<"+", "8", "0">>, <<"5", ":", "6">>,
     <<"2", "1", "4", "7", "4", "8", "3", "6", "4", "7">>,
     <<"2", "1", "4", "7", "4", "8", "3", "6", "4", "8">>,
     <<"-", "2", "1", "4", "7", "4", "8", "3", "6", "4", "9">>,
     <<"9", "9", "9", "9", "9", "9", "9", "9", "9", "9", "9">>}

\* the bind values: no host or a host, then nothing or ':' and a port text
BindValues(n) ==
    {h \o t : h \in {EmptyString, <<"h">>},
              t \in {EmptyString}
                    \cup {<<":">> \o q : q \in PortStrings(n) \cup LimitPorts}}

\* the values of --websocket-port: 0 when the option is not given, a port
\* of its own, the default primary port and a value above MAX_PORT
WebsocketPorts == {0, 8080, DEFAULT_PORT, MAX_PORT + 1}

\* SpecBind: main called with --bind, followed to the start of both servers
InitBind ==
    /\ ProcessStart
    /\ address_list \in {<<>>, <<<<192, 168, 1, 10>>>>}
    /\ selected = NotCalled
    /\ main_in \in [bind : BindValues(MaxPortLen),
                    websocket_port : WebsocketPorts]
    /\ main_pc = "bind"
    /\ main_out = [exit |-> "none"]

NextBind ==
    \/ MainParseBind
    \/ MainStartWs
    \/ WtBind
    \/ MainAddBroadcaster
    \/ MainStartNm
    \/ NmStartTcp
    \/ NmStartUdp
    \/ NmStartThread

SpecBind == InitBind /\ [][NextBind]_vars

(***************************************************************************)
(* Properties                                                              *)
(***************************************************************************)
\* address family of an endpoint
EndpointFamily(ep) == IF ep.fam = "v4" THEN "v4" ELSE "v6"

\* C1 (SpecCast): every send_to of every posted job goes to an endpoint that
\* a registration datagram attached (no datagram has the source 0.0.0.0:0,
\* the endpoint a peer holds from START_PLAY until it registers) and whose
\* address family is that of the UDP server socket.
C1_SendOnlyToRegistered ==
    \A i \in 1..Len(jobs) :
       \A k \in 1..Len(JobSends(jobs[i])) :
          LET ep == JobSends(jobs[i])[k].to
          IN /\ ep # DefaultEndpoint
             /\ EndpointFamily(ep) = udp_server_family

\* the end position in the chunk of the i-th segment produced
SegEnd(i) == SumLen(SubSeq(seg_list, 1, i))

\* C2 as stated (SpecSeg): every segment produced is at most
\* MAX_UDP_PAYLOAD_SIZE (1444) bytes long and its length is divisible by
\* block_align, the last segment of the chunk included.
C2_AllSegmentsAligned ==
    \A i \in 1..Len(seg_list) :
       /\ Len(seg_list[i]) <= MAX_UDP_PAYLOAD_SIZE
       /\ Len(seg_list[i]) % seg_in.block_align = 0

\* C2 amended (SpecSeg): every segment produced is at most 1444 bytes long;
\* every segment that does not end the chunk has a length divisible by
\* block_align, and the segment that ends the chunk has one exactly when
\* the chunk length is a multiple of block_align.
C2_SegmentsAlignedButLast ==
    \A i \in 1..Len(seg_list) :
       /\ Len(seg_list[i]) <= MAX_UDP_PAYLOAD_SIZE
       /\ IF SegEnd(i) < seg_in.count
          THEN Len(seg_list[i]) % seg_in.block_align = 0
          ELSE (Len(seg_list[i]) % seg_in.block_align = 0)
                  <=> (seg_in.count % seg_in.block_align = 0)

\* a chunk of several segments that does not hold whole sample frames has
\* been cut
C2_Witness ==
    /\ seg_pc = "done"
    /\ Len(seg_list) >= 2
    /\ seg_in.count % seg_in.block_align # 0
    /\ Len(seg_list[Len(seg_list)]) % seg_in.block_align # 0

\* C3 (SpecSeg): the segments produced so far, concatenated in the order
\* they were produced, are the first begin_pos bytes of the chunk, and when
\* the loop has ended they are the whole chunk: no byte is lost, duplicated
\* or reordered.
C3_SegmentsCoverChunk ==
    /\ Concat(seg_list) = SubSeq(seg_in.data, 1, begin_pos)
    /\ seg_pc = "done" => Concat(seg_list) = seg_in.data

\* a chunk has been cut into at least three segments
C3_Witness ==
    /\ seg_pc = "done"
    /\ Len(seg_list) >= 3
    /\ seg_in.count > 2 * MAX_UDP_PAYLOAD_SIZE

\* seg_cap of a block_align: 1444 - (1444 mod block_align)
seg_cap(block_align) == 1444 - (1444 % block_align)

\* the loop has ended and has produced ceil(count / seg_cap) segments
SegDoneWithCeilSegments ==
    /\ seg_pc = "done"
    /\ seg_cap(seg_in.block_align) > 0
    /\ Len(seg_list) = CeilDiv(seg_in.count, seg_cap(seg_in.block_align))

\* the loop has ended with n segments of 1440 bytes followed by one of 16
SegDoneWith1440s(n) ==
    /\ seg_pc = "done"
    /\ Len(seg_list) = n + 1
    /\ \A i \in 1..n : Len(seg_list[i]) = 1440
    /\ Len(seg_list[n + 1]) = 16

\* the loop has ended with n segments of 1444 bytes
SegDoneWith1444s(n) ==
    /\ seg_pc = "done"
    /\ Len(seg_list) = n
    /\ \A i \in 1..n : Len(seg_list[i]) = 1444

\* C4 as stated (FairSpecSeg): for every call with count > 0 and
\* block_align >= 1 the segmentation ends, with exactly
\* ceil(count / seg_cap) segments, seg_cap = 1444 - (1444 mod block_align);
\* count = 5776 and block_align = 4 give five segments, four of 1440 bytes
\* and one of 16.
C4_TerminatesWithCeilSegments ==
    /\ seg_in.count > 0 => <>SegDoneWithCeilSegments
    /\ (seg_in.count = 5776 /\ seg_in.block_align = 4) => <>SegDoneWith1440s(4)

\* C4 amended (FairSpecSeg): for every call with count > 0 and
\* 1 <= block_align <= 1444 (so that seg_cap >= 1) the segmentation ends,
\* with exactly ceil(count / seg_cap) segments; count = 5776 and
\* block_align = 4 give four segments of 1444 bytes (1444 mod 4 = 0).
C4_TerminatesForAlignUpToPayload ==
    /\ (seg_in.count > 0 /\ seg_in.block_align <= 1444) =>
          <>SegDoneWithCeilSegments
    /\ (seg_in.count = 5776 /\ seg_in.block_align = 4) => <>SegDoneWith1444s(4)

\* the example of the claim has been cut: 5776 bytes with block_align 4 into
\* four segments of 1444 bytes; and 5776 bytes with block_align 8 into four
\* of 1440 bytes and one of 16
C4_Witness ==
    /\ seg_in.count = 5776
    /\ \/ seg_in.block_align = 4 /\ SegDoneWith1444s(4)
       \/ seg_in.block_align = 8 /\ SegDoneWith1440s(4)

\* C5 (Spec): the ids handed out by add_playing_peer are 1, 2, 3, ... in
\* admission order (strictly increasing from 1, so no id is handed out
\* twice), the counter has advanced once per admission only (a rejected
\* START_PLAY consumes no id), and the peers in the registry carry different
\* ids that have been handed out.
C5_IdsUniqueIncreasing ==
    /\ \A i \in 1..Len(start_log) : start_log[i] = i
    /\ g_id = Len(start_log)
    /\ \A s \in DOMAIN _playing_peer_list :
          /\ _playing_peer_list[s].id \in 1..g_id
          /\ \A t \in DOMAIN _playing_peer_list :
                _playing_peer_list[s].id = _playing_peer_list[t].id => s = t

\* a peer has been admitted after an earlier admission
C5_Witness ==
    /\ Len(start_log) >= 2
    /\ \E s \in DOMAIN _playing_peer_list : _playing_peer_list[s].id = 2

\* a step in which the heartbeat loop of stream s ends and the stream's
\* socket goes from open to closed
HbLoopCloses(s) ==
    /\ hb[s] \in {"timer", "write"}
    /\ hb'[s] = "done"
    /\ sock[s] = "open"
    /\ sock'[s] = "closed"

\* C6 (Spec): the heartbeat loop closes a stream only when the time since
\* the listener's last HEARTBEAT arrived (since the admission, before the
\* first one) exceeds HEARTBEAT_TIMEOUT, or the stream's connection has
\* failed.  So a peer whose heartbeats arrive at most 4.9 s apart and whose
\* stream has no I/O error is never closed by the heartbeat loop.
C6_HeartbeatingPeerNotClosed ==
    [][\A s \in Streams :
          HbLoopCloses(s) =>
             (hb_gap[s] > HEARTBEAT_TIMEOUT \/ conn[s] = "down")]_vars

\* a playing peer passes a heartbeat check with a last tick that is exactly
\* HEARTBEAT_TIMEOUT old
C6_Witness ==
    \E s \in DOMAIN _playing_peer_list :
       /\ hb[s] = "write"
       /\ conn[s] = "up"
       /\ hb_gap[s] = HEARTBEAT_TIMEOUT
       /\ _playing_peer_list[s].age = HEARTBEAT_TIMEOUT

\* C7 (Spec): a peer is out of the registry at the latest
\* HEARTBEAT_INTERVAL after its last tick has become HEARTBEAT_TIMEOUT old:
\* no registry entry has a last tick older than 5 s + 3 s.
C7_SilentPeerRemoved ==
    \A s \in DOMAIN _playing_peer_list :
       _playing_peer_list[s].age <= HEARTBEAT_TIMEOUT + HEARTBEAT_INTERVAL

\* C8 (Spec): every stream that is a key of the registry is open.
C8_RegistryStreamsOpen ==
    \A s \in DOMAIN _playing_peer_list : sock[s] = "open"

\* a stream that completed START_PLAY has been closed and is out of the
\* registry
C8_Witness ==
    \E s \in Streams :
       /\ hb[s] # "none"
       /\ sock[s] = "closed"
       /\ s \notin DOMAIN _playing_peer_list

\* C9 (Spec): every open stream that completed START_PLAY (its start reply
\* was written, so its heartbeat loop was spawned) is in the registry.
C9_OpenPlayingInRegistry ==
    \A s \in Streams :
       (sock[s] = "open" /\ hb[s] # "none") => s \in DOMAIN _playing_peer_list

\* C10 (SpecPool): pool_size() lies in [0, max_pool_size].
C10_PoolSizeBounded ==
    /\ pool_size >= 0
    /\ pool_size <= pool_cfg.max_pool_size

\* C11 (SpecPool): the buffer that a call of acquire() hands out has
\* exactly buffer_size bytes, whether it was allocated by the call or taken
\* from the pool, and however its previous owner had resized it.
C11_AcquiredBufferHasBufferSize ==
    [][Len(held') = Len(held) + 1 =>
          held'[Len(held')].size = pool_cfg.buffer_size]_vars

\* acquire() has handed out a buffer that an earlier owner returned, while
\* another owner holds a buffer it has resized
C11_Witness ==
    /\ Len(held) >= 2
    /\ held[Len(held)].recycled
    /\ held[Len(held)].size = pool_cfg.buffer_size
    /\ held[1].size # pool_cfg.buffer_size


\* C12: under every interleaving of the capture thread's broadcast and the
\* send loop, the outbound queue of each WebSocket session holds at most 50
\* buffers
C12_QueueAtMostFifty ==
    \A w \in WsIds : Len(audio_queue[w]) <= WS_QUEUE_LIMIT

\* a queue that the send loop popped from and broadcasts filled up to 50
C12_Witness ==
    \E w \in WsIds :
       /\ Len(audio_queue[w]) = WS_QUEUE_LIMIT
       /\ ws_send[w] = "write"
       /\ ws_casts = MaxWsCasts

\* C13: a broadcast that finds the queue of a session at 50 leaves that
\* queue as it is, and appends one buffer with the whole chunk to the queue
\* of every other open session whose queue is below 50
C13_FullQueueDropsForThatSessionOnly ==
    [][(/\ ws_casts' = ws_casts + 1
        /\ \E f \in _sessions :
              ws_open[f] /\ Len(audio_queue[f]) = WS_QUEUE_LIMIT)
       => \A w \in WsIds :
             /\ Len(audio_queue[w]) = WS_QUEUE_LIMIT
                   => audio_queue'[w] = audio_queue[w]
             /\ (w \in _sessions /\ ws_open[w]
                    /\ Len(audio_queue[w]) < WS_QUEUE_LIMIT)
                   => audio_queue'[w] =
                         Append(audio_queue[w],
                                WsChunk(ws_casts', WsChunkLen))]_vars

\* session f never sent and is full, so the last broadcast found it at 50;
\* session w never sent and holds the chunk of every broadcast
C13_Witness ==
    \E f \in WsIds, w \in WsIds :
       /\ f # w
       /\ {f, w} \subseteq _sessions
       /\ ws_open[f] /\ ws_open[w]
       /\ ws_send[f] = "top" /\ ws_send[w] = "top"
       /\ ws_wire[f] = <<FormatFrame>> /\ ws_wire[w] = <<FormatFrame>>
       /\ ws_casts = MaxWsCasts
       /\ Len(audio_queue[f]) = WS_QUEUE_LIMIT
       /\ Len(audio_queue[w]) = MaxWsCasts


\* C14: on the stream of one peer at most one write of the server is in
\* progress: a reply write of the read loop and a heartbeat write of the
\* heartbeat loop never overlap
C14_OneWritePerStream ==
    \A s \in Streams : ~(rl[s] \in {"w_format", "w_start"} /\ hb[s] = "write")


\* C15: when a command other than GET_FORMAT, START_PLAY or HEARTBEAT is
\* read from a peer (NONE included), the server closes that peer: its
\* registry entry is removed, its stream is closed and the read loop has
\* ended, so no further command is read from it
C15_BadCommandClosesPeer ==
    [][\A s \in Streams :
          ReadBadCmd(s) => /\ s \notin DOMAIN _playing_peer_list'
                           /\ sock'[s] = "closed"
                           /\ rl'[s] = "done"]_vars


\* the positions of read_loop in which it is writing a reply to the peer
ReplyWrites == {"w_format", "w_start"}

\* C16: when START_PLAY is read on a stream that is already in the
\* registry, the server writes an error reply to the listener before it
\* closes the peer
C16_RepeatedStartGetsErrorReply ==
    [][\A s \in Streams :
          (s \in DOMAIN _playing_peer_list /\ ReadStartPlay(s))
             => rl'[s] \in ReplyWrites]_vars


\* a step that closes stream s: its entry leaves the registry or its socket
\* is closed
ClosesPeer(s) ==
    \/ s \in DOMAIN _playing_peer_list /\ s \notin DOMAIN _playing_peer_list'
    \/ sock[s] = "open" /\ sock'[s] = "closed"

RegistrationOf(id, src) ==
    /\ _playing_peer_list' = fill_udp_peer(_playing_peer_list, id, src)
    /\ UNCHANGED <<sock, conn, rl, hb, timer, g_id, udp_server_family, jobs,
                   stream_slots, histVars, poolVars, segVars, wsVars, lifeVars>>

\* the registry reg2 is reg with the endpoint ep in the entry of the peer
\* whose id is id, and is reg when no peer has that id
EndpointSetTo(reg, id, ep, reg2) ==
    /\ DOMAIN reg2 = DOMAIN reg
    /\ \A k \in DOMAIN reg :
          IF reg[k].id = id
          THEN reg2[k] = [id |-> reg[k].id, udp_peer |-> ep, age |-> reg[k].age]
          ELSE reg2[k] = reg[k]

\* C18: a registration datagram with id i from source s makes s
\* the udp_endpoint of the peer with id i and changes no other peer; when no
\* peer has id i the registry is unchanged
C18_EndpointBecomesSource ==
    [][\A id \in 0..stream_slots, src \in Sources(udp_server_family) :
          RegistrationOf(id, src) =>
             EndpointSetTo(_playing_peer_list, id, src,
                           _playing_peer_list')]_vars



\* C19: the id that read_loop writes in the start reply of a stream (the
\* value add_playing_peer returned) is the id in the registry entry of that
\* stream from the start of the write to its end, and it is at least 1; no
\* entry holds the id 0
C19_ReplyIdIsRegistryId ==
    [][/\ \A k \in DOMAIN _playing_peer_list' : _playing_peer_list'[k].id >= 1
       /\ \A s \in Streams :
             /\ (rl[s] = "read" /\ rl'[s] = "w_start")
                   => /\ s \in DOMAIN _playing_peer_list'
                      /\ start_log' = Append(start_log, _playing_peer_list'[s].id)
             /\ rl[s] = "w_start"
                   => /\ s \in DOMAIN _playing_peer_list
                      /\ s \in DOMAIN _playing_peer_list'
                            => _playing_peer_list'[s].id = _playing_peer_list[s].id
                      /\ rl'[s] = "read" => s \in DOMAIN _playing_peer_list']_vars

\* the start reply of the second admission is being written
C19_Witness ==
    \E s \in Streams :
       /\ rl[s] = "w_start"
       /\ s \in DOMAIN _playing_peer_list
       /\ _playing_peer_list[s].id = 2
       /\ start_log = <<1, 2>>


WsHeartbeatCheck(w) ==
    /\ ws_hb[w] = "timer"
    /\ ws_timer[w] = 0
    /\ ws_hb'[w] # "timer"

C22_NoBroadcastAfterReactorStopped ==
    [][(Broadcast /\ nm_udp = "bound" /\ nm_thread # "none")
         => (nm_ioc # "stopped" /\ nm_thread # "joined")]_vars

\* C23: the capture produces only while both listeners are bound, and when
\* start_server throws the capture is not producing and is_running() is
\* false
C23_CaptureStartsAfterBothBinds ==
    /\ capture = "on" => (nm_tcp /\ nm_udp = "bound")
    /\ nm_thrown = "start_server" => (capture = "off" /\ ~is_running)

\* C25: every stop_server call of the primary server returns normally, and
\* leaves the server not running with an empty registry
C25_StopNeverThrows ==
    [][(nm_pc \in {"stop_join", "stop_capture", "stop_clear"}
           /\ nm_pc' = "idle")
        => /\ nm_thrown' = "none"
           /\ ~is_running'
           /\ _playing_peer_list' = <<>>]_vars


\* C24: when the websocket_manager's stop_server has returned, the worker
\* thread has exited and been joined, the session map is empty and
\* is_running() is false
C24_StopLeavesWorkerJoined ==
    (wl_pc = "idle" /\ wl_ret = "stop_server")
       => /\ ws_thread \in {"none", "joined"}
          /\ _sessions = {}
          /\ ~ws_is_running


\* the registered broadcasters that are not null, in registration order
RegisteredBroadcasters ==
    SelectSeq(_additional_broadcasters, LAMBDA b : b # NullBroadcaster)

\* C26: a broadcast call with len > 0 calls every registered additional
\* broadcaster once, in registration order, with the (data, len, align) it
\* was given, whatever the UDP peers are
C26_EveryBroadcasterOnceInOrder ==
    [][(Broadcast /\ cast_in'.count > 0) =>
          /\ Len(bc_calls') = Len(RegisteredBroadcasters)
          /\ \A i \in 1..Len(bc_calls') :
                bc_calls'[i] = [to |-> RegisteredBroadcasters[i],
                                data |-> cast_in'.data,
                                count |-> cast_in'.count,
                                block_align |-> cast_in'.block_align]]_vars

\* two different broadcasters were called, with no UDP peer registered
C26_Witness ==
    /\ Len(bc_calls) = 2
    /\ bc_calls[1].to # bc_calls[2].to
    /\ cast_in.count > 0
    /\ _playing_peer_list = <<>>


\* the sends of a job, issued in that order, go to every endpoint of the job
\* for every segment, and for one endpoint in segment order
IssuedInSegmentOrder(job, sends) ==
    /\ Len(sends) = Len(job.seg_list) * Len(job.udp_peers)
    /\ \A k \in 1..Len(job.seg_list), p \in 1..Len(job.udp_peers) :
          \E i \in 1..Len(sends) :
             sends[i] = [idx |-> k, to |-> job.udp_peers[p]]
    /\ \A i, j \in 1..Len(sends) :
          (i < j /\ sends[i].to = sends[j].to) => sends[i].idx <= sends[j].idx

\* C27: the reactor runs the jobs in the order the broadcast calls posted
\* them, and a job issues its send_to calls to one endpoint in segment order
C27_SendsInCallAndSegmentOrder ==
    [][/\ RunJob => /\ jobs # <<>>
                    /\ jobs' = Tail(jobs)
                    /\ IssuedInSegmentOrder(Head(jobs), issued')
       /\ Broadcast => \/ jobs' = jobs
                       \/ /\ Len(jobs') = Len(jobs) + 1
                          /\ SubSeq(jobs', 1, Len(jobs)) = jobs]_vars

\* a job of two segments for two endpoints has been run while a later job
\* waits
C27_Witness ==
    /\ Len(issued) = 4
    /\ issued[1].to # issued[2].to
    /\ issued[1].idx = 1
    /\ issued[4].idx = 2
    /\ jobs # <<>>

\* the buffers a posted job holds
RECURSIVE JobBuffers(_)
JobBuffers(js) ==
    IF js = <<>> THEN 0 ELSE Len(Head(js).seg_list) + JobBuffers(Tail(js))

\* C28: a buffer of the pool is in the pool, or held by a posted job, or
\* referred to by a send_to that has not completed, and never two of these;
\* a job without endpoints gives its buffers back when it has run, a job
\* with endpoints gives none back
C28_BufferOutUntilSendsComplete ==
    /\ [](Len(_pool) + JobBuffers(jobs) + Len(flying) = POOL_INITIAL_CAPACITY)
    /\ [][RunJob =>
            Len(_pool') = Len(_pool)
               + (IF Head(jobs).udp_peers = <<>>
                  THEN Len(Head(jobs).seg_list) ELSE 0)]_vars

\* one of the two send_to calls that refer to a buffer has completed
C28_Witness ==
    /\ Len(issued) = 4
    /\ \E i \in 1..Len(flying) : flying[i].sends = 1
    /\ Len(_pool) < POOL_INITIAL_CAPACITY


\* the address lies in 10.0.0.0/8, 172.16.0.0/12 or 192.168.0.0/16
InPrivateRange(address) ==
    \/ address[1] = 10
    \/ address[1] = 172 /\ address[2] \in 16..31
    \/ address[1] = 192 /\ address[2] = 168

\* C29: select_default_address returns the first address of the list that
\* lies in a private range, else the first address, else the empty string
C29_FirstPrivateElseFirst ==
    selected # NotCalled =>
       selected =
          IF address_list = <<>> THEN EmptyString
          ELSE LET hits == {i \in DOMAIN address_list :
                               InPrivateRange(address_list[i])}
               IN IF hits # {}
                  THEN address_list[CHOOSE i \in hits : \A j \in hits : i <= j]
                  ELSE address_list[1]


\* the text after the first ':' of the bind value, and whether there is one
BindHasColon == \E i \in DOMAIN main_in.bind : main_in.bind[i] = ":"

BindPortText ==
    LET i == CHOOSE k \in DOMAIN main_in.bind :
                /\ main_in.bind[k] = ":"
                /\ \A j \in 1..(k - 1) : main_in.bind[j] # ":"
    IN SubSeq(main_in.bind, i + 1, Len(main_in.bind))

\* q is a number: white space, at most one sign, then digits and nothing else
IsNumber(q) ==
    \E w \in 0..Len(q), g \in 0..1 :
       /\ w + g < Len(q)
       /\ \A i \in 1..w : q[i] \in WhiteSpace
       /\ g = 1 => q[w + 1] \in {"+", "-"}
       /\ \A i \in (w + g + 1)..Len(q) : q[i] \in Digits

\* the digits of the number q without the zeros in front
SignificantDigits(q) ==
    LET first == CHOOSE i \in 1..(Len(q) + 1) :
                    /\ \A j \in 1..(i - 1) : q[j] \notin Digits \/ q[j] = "0"
                    /\ i <= Len(q) => (q[i] \in Digits /\ q[i] # "0")
    IN SubSeq(q, first, Len(q))

RECURSIVE DecimalValue(_)
DecimalValue(ds) ==
    IF ds = <<>> THEN 0
    ELSE 10 * DecimalValue(SubSeq(ds, 1, Len(ds) - 1)) + DigitValue(ds[Len(ds)])

\* the number q is a port of [1, 65535]
IsPortNumber(q) ==
    /\ \A i \in DOMAIN q : q[i] # "-"
    /\ Len(SignificantDigits(q)) \in 1..5
    /\ DecimalValue(SignificantDigits(q)) \in 1..65535

\* neither server has been started
NoServerStarted ==
    /\ ws_ioc = "null" /\ ws_thread = "none" /\ ~ws_is_running
    /\ nm_ioc = "null" /\ nm_thread = "none" /\ ~nm_tcp /\ nm_udp = "null"
    /\ capture = "off"

\* C30: once main has parsed the bind value, an empty port after ':', a port
\* that is no number and a port outside [1, 65535] have made main return
\* EXIT_FAILURE with no server started, and a bind value without ':' that
\* was accepted got the port 65530
C30_BadPortExitsBeforeAnyServer ==
    main_pc # "bind" =>
       /\ (BindHasColon /\ (\/ BindPortText = EmptyString
                            \/ ~IsNumber(BindPortText)
                            \/ ~IsPortNumber(BindPortText)))
             => (main_pc = "exited" /\ main_out.exit = "EXIT_FAILURE"
                 /\ NoServerStarted)
       /\ (~BindHasColon /\ main_pc # "exited") => main_out.port = 65530
       /\ (~BindHasColon /\ main_pc = "exited")
             => (BindHost(main_in.bind) = EmptyString /\ address_list = <<>>)

\* --bind :99999 has made main exit
C30_Witness ==
    /\ main_in.bind = <<":", "9", "9", "9", "9", "9">>
    /\ main_pc = "exited"
    /\ main_out.exit = "EXIT_FAILURE"


\* C31: once main has accepted the primary port, the port of the WebSocket
\* server is a port of [1, 65535] other than the primary port, and it is
\* the primary port plus one when --websocket-port is not given
C31_WsPortValidAndDistinct ==
    (main_pc \notin {"bind", "exited"}) =>
       /\ main_out.ws_port \in MIN_PORT..MAX_PORT
       /\ main_out.ws_port # main_out.port
       /\ main_in.websocket_port = 0 => main_out.ws_port = main_out.port + 1


\* the endpoint's address family is the server socket's
SameFamily(server_family, ep) == (server_family = "v4") = (ep.fam = "v4")

\* how many elements of the sequence q satisfy Test
CountOf(q, Test(_)) == Cardinality({i \in DOMAIN q : Test(q[i])})

\* C32: a broadcast posts a job that holds, for every endpoint, as many
\* entries as the registry has peers of the server's family with that
\* endpoint, hence none for a peer of the other family; the reactor issues
\* one send per segment and entry of the job; and no peer id ever gets a
\* second mismatch warning
C32_MismatchSkippedWarnedOnce ==
    /\ [](\A id \in DOMAIN warn_count : warn_count[id] <= 1)
    /\ [][(Broadcast /\ cast_in'.count > 0 /\ ~nm_crashed' /\ nm_udp # "null")
            => /\ Len(jobs') = Len(jobs) + 1
               /\ LET job == jobs'[Len(jobs')]
                      reg == _playing_peer_list
                  IN \A k \in DOMAIN reg :
                       LET e == reg[k].udp_peer
                       IN CountOf(job.udp_peers, LAMBDA x : x = e)
                            = IF SameFamily(udp_server_family, e)
                              THEN Cardinality({j \in DOMAIN reg :
                                                  reg[j].udp_peer = e})
                              ELSE 0]_vars
    /\ [][RunJob
            => LET job == Head(jobs)
               IN \A s \in DOMAIN job.seg_list :
                    \A e \in {job.udp_peers[i] : i \in DOMAIN job.udp_peers} :
                       CountOf(issued', LAMBDA x : x.idx = s /\ x.to = e)
                         = CountOf(job.udp_peers, LAMBDA x : x = e)]_vars

\* on a dual-stack server a second broadcast has skipped the listener whose
\* endpoint is IPv4 and sent to the one whose endpoint is IPv6, after the
\* first broadcast warned about the former
C32_Witness ==
    /\ udp_server_family = "v6"
    /\ \E a, b \in DOMAIN _playing_peer_list :
          /\ _playing_peer_list[a].udp_peer.fam = "v4"
          /\ _playing_peer_list[b].udp_peer.fam = "v6"
          /\ _playing_peer_list[a].id \in logged_ids
          /\ warn_count[_playing_peer_list[a].id] = 1
          /\ issued # <<>>
          /\ \A i \in DOMAIN issued : issued[i].to = _playing_peer_list[b].udp_peer
          /\ jobs # <<>>


\* C33: a stream whose connection has failed while the server holds it open
\* is eventually closed and out of the registry
C33_FailedPeerEventuallyClosed ==
    \A s \in Streams :
       (sock[s] = "open" /\ conn[s] = "down")
          ~> (sock[s] # "open" /\ s \notin DOMAIN _playing_peer_list)


\* C34: a message read on a WebSocket session sets the age of its last tick
\* to zero and writes nothing itself; the read loop goes on to write a reply
\* exactly when the message is "ping", and the reply it writes is one text
\* frame whose payload is "pong"
C34_PingAnsweredWithPong ==
    [][\A w \in WsIds :
         /\ WsReadMessage(w)
              => /\ ws_age'[w] = 0
                 /\ ws_wire' = ws_wire
                 /\ (ws_pc'[w] \in {"pong", "pong_stuck"})
                       <=> (ws_msg'[w] = "ping")
         /\ (WsPongWritten(w) /\ ws_wire'[w] # ws_wire[w])
              => /\ ws_msg[w] = "ping"
                 /\ ws_wire'[w] = Append(ws_wire[w],
                                         [kind |-> "text", payload |-> "pong"])]_vars


\* the buffers of the binary frames written to connection w, in the order
\* written
WsAudioSent(w) ==
    LET binary == SelectSeq(ws_wire[w], LAMBDA f : f.kind = "binary")
    IN [i \in DOMAIN binary |-> binary[i].payload]

\* the buffer send_loop is writing on connection w
WsAudioPending(w) ==
    IF ws_send[w] \in {"write", "stuck"} THEN <<ws_out[w]>> ELSE <<>>

\* chunk k was handed to the session of connection w and is not written
WsAudioWaiting(w, k) ==
    \E i \in DOMAIN (WsAudioPending(w) \o audio_queue[w]) :
       (WsAudioPending(w) \o audio_queue[w])[i] = WsChunk(k, WsChunkLen)

\* the session of connection w has ended, or its browser takes no more
\* frames
WsSessionOver(w) ==
    \/ nm_crashed
    \/ ~ws_is_running
    \/ ~ws_open[w]
    \/ ws_peer[w] = "down"
    \/ ws_send[w] = "done"
    \/ Len(ws_wire[w]) >= MaxWsFrames

WsSessionWrites(w) == ws_pc[w] \in {"fmt", "pong", "pong_stuck"}

\* a write of send_loop is in progress on connection w
WsSendWrites(w) == ws_send[w] \in {"write", "stuck"}

\* C36: on the stream of one WebSocket connection at most one write is in
\* progress: a write of handle_session (the format, the pong) and the audio
\* write of send_loop never overlap, and the stream is closed with
\* going_away (by heartbeat_loop or stop_server) only while no write is in
\* progress on it
C36_OneWritePerWsStream ==
    /\ [](\A w \in WsIds : ~(WsSessionWrites(w) /\ WsSendWrites(w)))
    /\ [][\A w \in WsIds :
            (ws_close[w] = "none" /\ ws_close'[w] = "going_away")
               => ~(WsSessionWrites(w) \/ WsSendWrites(w))]_vars


\* C37: reading GET_FORMAT, and the completion of its reply without an
\* error, change neither the registry nor g_id; reading HEARTBEAT leaves
\* g_id, the set of registered streams and every other stream's entry as
\* they are, and sets the age of the sender's last_tick to zero when the
\* sender is registered; from a stream that is not registered it changes
\* nothing, and the stream stays open with its read loop reading
C37_FormatAndHeartbeatKeepRegistry ==
    [][\A s \in Streams :
         /\ (\/ ReadGetFormat(s)
             \/ ReplyWritten(s) /\ rl[s] = "w_format" /\ ~WriteFails(s))
              => /\ _playing_peer_list' = _playing_peer_list
                 /\ g_id' = g_id
                 /\ start_log' = start_log
         /\ ReadHeartbeat(s)
              => /\ g_id' = g_id
                 /\ start_log' = start_log
                 /\ DOMAIN _playing_peer_list' = DOMAIN _playing_peer_list
                 /\ \A t \in DOMAIN _playing_peer_list :
                       _playing_peer_list'[t] =
                          IF t = s
                          THEN [_playing_peer_list[t] EXCEPT !.age = 0]
                          ELSE _playing_peer_list[t]
                 /\ s \notin DOMAIN _playing_peer_list
                       => /\ sock'[s] = "open"
                          /\ rl'[s] = "read"
                          /\ hb'[s] = hb[s]]_vars

\* a HEARTBEAT has refreshed the entry of one of the peers that were playing
\* at the start, while the last_tick of the other one has its age
C37_Witness ==
    \E s, t \in Streams :
       /\ s \in DOMAIN _playing_peer_list
       /\ t \in DOMAIN _playing_peer_list
       /\ _playing_peer_list[s].id = s
       /\ _playing_peer_list[t].id = t
       /\ _playing_peer_list[s].age = 0
       /\ _playing_peer_list[t].age = 2 * HEARTBEAT_INTERVAL


\* the mutexes thread t holds
HeldBy(t) == {m \in Mutexes : mtx[m] = t}

\* the order of the mutexes: the broadcaster list, the session map, the
\* queue of a session; the pool and the registry after them
LockRank(m) ==
    CASE m = broadcasters_mutex -> 1
      [] m = sessions_mutex -> 2
      [] m = pool_mutex -> 4
      [] m = peer_list_mutex -> 5
      [] OTHER -> 3

\* thread t is at a lock() call
AtLock(t) == th[t] # <<>> /\ Head(th[t]).op = "lock"

C39_RegisteredPeerInEveryFanOut ==
    [][(Broadcast /\ cast_in'.count > 0 /\ ~nm_crashed' /\ nm_udp # "null")
         => /\ Len(jobs') = Len(jobs) + 1
            /\ \A k \in DOMAIN _playing_peer_list :
                  _playing_peer_list[k].udp_peer # DefaultEndpoint
                     => \E i \in DOMAIN jobs'[Len(jobs')].udp_peers :
                           jobs'[Len(jobs')].udp_peers[i]
                              = _playing_peer_list[k].udp_peer]_vars


\* the bit width of the encoding named in a format message
WidthOf(encoding_str) ==
    CASE encoding_str \in {"f32", "s32"} -> 32
      [] encoding_str = "s24" -> 24
      [] encoding_str = "s16" -> 16
      [] encoding_str = "s8" -> 8
      [] OTHER -> 0

\* C40: the format message built for a WebSocket listener names one of the
\* encodings f32, s8, s16, s24, s32, the bit width of that encoding, a
\* channel count from 1 to 8 and a sample rate from 8000 to 192000, for
\* every capture_config main passes, the defaults included
C40_FormatJsonDescribesCapture ==
    format_json # NotBuilt =>
       /\ format_json.type = "format"
       /\ format_json.encoding \in {"f32", "s8", "s16", "s24", "s32"}
       /\ format_json.bitsPerSample = WidthOf(format_json.encoding)
       /\ format_json.channels \in 1..8
       /\ format_json.sampleRate \in 8000..192000

====
